---- MODULE Spec2Model ----
(***************************************************************************)
(* Verification model of the aiat extension core:                          *)
(*   - StateManager   (client/stateManager.ts)                             *)
(*   - AgentClient    (client/agentClient.ts)                              *)
(*   - McpTunnel      (server/toolServer.ts)                               *)
(* Every method is an operator from a component record to the component    *)
(* record after the call; an action is one event-loop task (a user call,   *)
(* a transport event, a timer) run to completion, microtasks included.     *)
(***************************************************************************)
EXTENDS Integers, Sequences, FiniteSets, TLC

VARIABLES
    sm,     \* the StateManager, with the timer/microtask/listener runtime it uses
    cl,     \* the AgentClient: its fields, its sockets, timers and connect() calls
    tn,     \* the McpTunnel and the McpServer: fields, sockets, requests, frames
    ms,     \* the MessageStorage: the persisted history map, the clock, the calls
    last    \* the event-loop task just run and the state it started from

vars == <<sm, cl, tn, ms, last>>

(***************************************************************************)
(* Value domains                                                           *)
(***************************************************************************)
Null == "null"
NoError == ""            \* an absent (undefined) or empty error argument: falsy

ConnectionState == {"connecting", "connected", "error", "closed"}
TaskState == {"idle", "starting", "running", "awaiting_input", "stopping",
              "completed", "error"}

StopTimeoutError == "stop timed out"
STOP_TIMEOUT_MS == 5000
ErrorArgs == {NoError, "failure"}

\* if (error) ...
Truthy(error) == error # NoError

NoPending == [state |-> Null, error |-> NoError]

\* Inbound frames, by the fields inferStateFromMessage reads:
\* message.type, message.status, message.data?.status
Msg(t, st, dst) == [type |-> t, status |-> st, dataStatus |-> dst]
NoMessage == Msg(Null, Null, Null)
Messages ==
    { Msg("system", "connected", Null), Msg("system", "other", Null),
      Msg("message", Null, Null),
      Msg("result", Null, "complete"), Msg("result", Null, "partial"),
      Msg("completion", "cancelled", "cancelled"),
      Msg("completion", "completed", "complete"),
      Msg("completion", "complete", "complete"),
      Msg("completion", Null, "complete"),
      Msg("input_request", Null, Null),
      Msg("stop", Null, Null),
      Msg("error", Null, Null),
      Msg("pong", Null, Null),
      Msg("raw", Null, Null) }

(***************************************************************************)
(* Listeners.  A listener is code of the host: it may call back into the   *)
(* StateManager.  What the listeners of one task do is a script: the       *)
(* listener of kind `on` (generic AppState, connection, task), when next   *)
(* invoked, makes the call `op(state, error)` before it returns.           *)
(***************************************************************************)
MaxReentrant == 2
ReactConnection == {"connected", "closed"}
ReactTask == {"running", "stopping", "idle"}

Reaction ==
    [on : {"generic", "conn", "task"}, op : {"conn"}, state : ReactConnection,
     error : {NoError}]
    \cup
    [on : {"generic", "conn", "task"}, op : {"task"}, state : ReactTask,
     error : {NoError}]

Scripts == UNION { [1..n -> Reaction] : n \in 0..MaxReentrant }

\* What a listener round, a deferral or an applied update leaves in the log.
Note(k, c, t, e) == [k |-> k, conn |-> c, task |-> t, error |-> e]

(***************************************************************************)
(* StateManager                                                            *)
(***************************************************************************)
StateManagerInit ==
    [ connection |-> "closed", task |-> "idle", runId |-> Null,
      lastError |-> Null, lastMessage |-> NoMessage,
      updatingConnection |-> FALSE, updatingTask |-> FALSE,
      pendingConnectionUpdate |-> NoPending, pendingTaskUpdate |-> NoPending,
      stopTimeout |-> FALSE,     \* _stopTimeout holds a handle
      stopTimer |-> FALSE,       \* a watchdog timer is set and has not fired
      stopDue |-> 0,             \* the time that timer is set for
      now |-> 0,                 \* the clock setTimeout reads
      stoppingSince |-> 0,       \* the time the task last entered stopping
      microtasks |-> <<>>,       \* queued Promise.resolve().then callbacks
      script |-> <<>>,           \* what the listeners will still do in this task
      log |-> <<>> ]             \* listener rounds and updates of this task

isConnected(s) == s.connection = "connected"
isTaskRunning(s) == s.task \in {"starting", "running", "awaiting_input"}
canStartTask(s) == isConnected(s) /\ s.task \in {"idle", "completed", "error"}
canStopTask(s) == isTaskRunning(s)

\* Then(v, F) is F(v) with v evaluated once: the statements of a method run
\* in sequence, each on the state the previous one left.
Then(v, F(_)) == CHOOSE r \in { F(x) : x \in {v} } : TRUE

RECURSIVE updateConnectionState(_, _, _)
RECURSIVE performConnectionStateUpdate(_, _, _)
RECURSIVE updateTaskState(_, _, _)
RECURSIVE performTaskStateUpdate(_, _, _)

\* One forEach round over the listeners of a kind: every listener is handed
\* the value; a listener that re-enters does so before the round returns.
Listeners(s, kind, c, t) ==
    Then([s EXCEPT !.log = Append(@, Note(kind, c, t, NoError))], LAMBDA s1 :
        IF s1.script # <<>> /\ Head(s1.script).on = kind
        THEN Then(Head(s1.script), LAMBDA r :
             Then([s1 EXCEPT !.script = Tail(@)], LAMBDA s2 :
                 IF r.op = "conn"
                 THEN updateConnectionState(s2, r.state, r.error)
                 ELSE updateTaskState(s2, r.state, r.error)))
        ELSE s1)

notifyListeners(s) ==
    Then(s, LAMBDA s0 : Listeners(s0, "generic", s0.connection, s0.task))

\* Mutant: the reset is made for `closed` only.
syncConnectionWithTaskState_ClosedOnly(s, oldConnectionState, newConnectionState) ==
    Then(s, LAMBDA s0 :
        IF newConnectionState = "closed" /\ s0.task # "idle"
        THEN Listeners([s0 EXCEPT !.task = "idle"], "task", "-", "idle")
        ELSE s0)

syncConnectionWithTaskState(s, oldConnectionState, newConnectionState) ==
    Then(s, LAMBDA s0 :
        IF newConnectionState \in {"closed", "error"} /\ s0.task # "idle"
        THEN Listeners([s0 EXCEPT !.task = "idle"], "task", "-", "idle")
        ELSE s0)

\* Mutant: a timer still held is left to run in place of a new one.
handleStopTimeout_KeepsEarlier(s, oldState, newState) ==
    Then(s, LAMBDA s0 :
        IF newState = "stopping"
        THEN IF s0.stopTimer
             THEN s0
             ELSE [s0 EXCEPT !.stopTimeout = TRUE, !.stopTimer = TRUE,
                             !.stopDue = s0.now + STOP_TIMEOUT_MS]
        ELSE IF oldState = "stopping"
             THEN IF s0.stopTimeout
                  THEN [s0 EXCEPT !.stopTimeout = FALSE, !.stopTimer = FALSE,
                                  !.stopDue = 0]
                  ELSE s0
             ELSE s0)

\* clearTimeout of the handle held and setTimeout leave one timer, set for
\* STOP_TIMEOUT_MS from now.
handleStopTimeout(s, oldState, newState) ==
    Then(s, LAMBDA s0 :
        IF newState = "stopping"
        THEN [s0 EXCEPT !.stopTimeout = TRUE, !.stopTimer = TRUE,
                        !.stopDue = s0.now + STOP_TIMEOUT_MS]
        ELSE IF oldState = "stopping"
             THEN IF s0.stopTimeout
                  THEN [s0 EXCEPT !.stopTimeout = FALSE, !.stopTimer = FALSE,
                                  !.stopDue = 0]
                  ELSE s0
             ELSE s0)

\* Mutant: the idempotence test forgets the attached error.
updateConnectionState_IgnoresError(s, newState, error) ==
    Then(s, LAMBDA s0 :
        IF s0.connection = newState
        THEN s0
        ELSE IF s0.updatingConnection
             THEN [s0 EXCEPT !.pendingConnectionUpdate =
                                 [state |-> newState, error |-> error],
                             !.microtasks = Append(@, "conn"),
                             !.log = Append(@, Note("defer_conn", newState, "-", error))]
             ELSE performConnectionStateUpdate(s0, newState, error))

updateConnectionState(s, newState, error) ==
    Then(s, LAMBDA s0 :
        IF s0.connection = newState /\ ~Truthy(error)
        THEN s0
        ELSE IF s0.updatingConnection
             THEN [s0 EXCEPT !.pendingConnectionUpdate =
                                 [state |-> newState, error |-> error],
                             !.microtasks = Append(@, "conn"),
                             !.log = Append(@, Note("defer_conn", newState, "-", error))]
             ELSE performConnectionStateUpdate(s0, newState, error))

\* The tail of _performConnectionStateUpdate: replay the deferred request.
replayPendingConnection(s) ==
    Then(s, LAMBDA s6 :
        IF s6.pendingConnectionUpdate # NoPending
        THEN Then(s6.pendingConnectionUpdate, LAMBDA pending :
             Then([s6 EXCEPT !.pendingConnectionUpdate = NoPending], LAMBDA s7 :
                 IF pending.state # s7.connection \/ Truthy(pending.error)
                 THEN updateConnectionState(s7, pending.state, pending.error)
                 ELSE s7))
        ELSE s6)

performConnectionStateUpdate(s, newState, error) ==
    Then(s, LAMBDA s0 :
    Then(notifyListeners([s0 EXCEPT !.updatingConnection = TRUE,
                                    !.connection = newState,
                                    !.lastError = IF Truthy(error) THEN error ELSE @]),
         LAMBDA s2 :
    Then(Listeners(s2, "conn", newState, "-"), LAMBDA s3 :
    Then(syncConnectionWithTaskState(
             [s3 EXCEPT !.log = Append(@, Note("apply_conn", newState, "-", error))],
             s0.connection, newState),
         LAMBDA s5 :
    replayPendingConnection([s5 EXCEPT !.updatingConnection = FALSE])))))

updateTaskState(s, newState, error) ==
    Then(s, LAMBDA s0 :
        IF s0.task = newState /\ ~Truthy(error)
        THEN s0
        ELSE IF s0.updatingTask
             THEN [s0 EXCEPT !.pendingTaskUpdate =
                                 [state |-> newState, error |-> error],
                             !.microtasks = Append(@, "task"),
                             !.log = Append(@, Note("defer_task", "-", newState, error))]
             ELSE performTaskStateUpdate(s0, newState, error))

\* The tail of _performTaskStateUpdate: replay the deferred request.
replayPendingTask(s) ==
    Then(s, LAMBDA s6 :
        IF s6.pendingTaskUpdate # NoPending
        THEN Then(s6.pendingTaskUpdate, LAMBDA pending :
             Then([s6 EXCEPT !.pendingTaskUpdate = NoPending], LAMBDA s7 :
                 IF pending.state # s7.task \/ Truthy(pending.error)
                 THEN updateTaskState(s7, pending.state, pending.error)
                 ELSE s7))
        ELSE s6)

\* Mutant: a task update to error also marks the connection as failed.
performTaskStateUpdate_MarksConnection(s, newState, error) ==
    Then(s, LAMBDA s0 :
    Then(handleStopTimeout([s0 EXCEPT !.updatingTask = TRUE,
                                      !.task = newState,
                                      !.connection =
                                          IF newState = "error" THEN "error" ELSE @,
                                      !.lastError = IF Truthy(error) THEN error ELSE @],
                           s0.task, newState),
         LAMBDA s2 :
    Then(notifyListeners(s2), LAMBDA s3 :
    Then(Listeners(s3, "task", "-", newState), LAMBDA s4 :
    replayPendingTask(
        [s4 EXCEPT !.log = Append(@, Note("apply_task", "-", newState, error)),
                   !.updatingTask = FALSE])))))

performTaskStateUpdate(s, newState, error) ==
    Then(s, LAMBDA s0 :
    Then(handleStopTimeout([s0 EXCEPT !.updatingTask = TRUE,
                                      !.task = newState,
                                      !.lastError = IF Truthy(error) THEN error ELSE @],
                           s0.task, newState),
         LAMBDA s2 :
    Then(notifyListeners(s2), LAMBDA s3 :
    Then(Listeners(s3, "task", "-", newState), LAMBDA s4 :
    replayPendingTask(
        [s4 EXCEPT !.log = Append(@, Note("apply_task", "-", newState, error)),
                   !.updatingTask = FALSE])))))

\* The callbacks updateConnectionState / updateTaskState hand to
\* Promise.resolve().then when they defer a request.
pendingConnectionMicrotask(s) ==
    Then(s, LAMBDA s0 :
        IF s0.pendingConnectionUpdate # NoPending
        THEN Then(s0.pendingConnectionUpdate, LAMBDA pending :
             Then([s0 EXCEPT !.pendingConnectionUpdate = NoPending], LAMBDA s1 :
                 IF pending.state # s1.connection \/ Truthy(pending.error)
                 THEN performConnectionStateUpdate(s1, pending.state, pending.error)
                 ELSE s1))
        ELSE s0)

pendingTaskMicrotask(s) ==
    Then(s, LAMBDA s0 :
        IF s0.pendingTaskUpdate # NoPending
        THEN Then(s0.pendingTaskUpdate, LAMBDA pending :
             Then([s0 EXCEPT !.pendingTaskUpdate = NoPending], LAMBDA s1 :
                 IF pending.state # s1.task \/ Truthy(pending.error)
                 THEN performTaskStateUpdate(s1, pending.state, pending.error)
                 ELSE s1))
        ELSE s0)

setRunId(s, runId) ==
    Then(s, LAMBDA s0 :
        IF s0.runId # runId THEN notifyListeners([s0 EXCEPT !.runId = runId]) ELSE s0)

setLastMessage(s, message) ==
    notifyListeners([s EXCEPT !.lastMessage = message])

batchUpdateStates(s, connectionState, taskState) ==
    Then(s, LAMBDA s0 :
    Then(connectionState # Null /\ connectionState # s0.connection, LAMBDA c :
    Then(taskState # Null /\ taskState # s0.task, LAMBDA t :
        IF c \/ t
        THEN Then(notifyListeners(
                      [s0 EXCEPT !.connection = IF c THEN connectionState ELSE @,
                                 !.task = IF t THEN taskState ELSE @]),
                  LAMBDA s3 :
             Then(IF connectionState # Null
                  THEN Listeners(s3, "conn", connectionState, "-") ELSE s3,
                  LAMBDA s4 :
                 IF taskState # Null
                 THEN Listeners(s4, "task", "-", taskState) ELSE s4))
        ELSE s0)))

\* The transitions the switch of inferStateFromMessage derives: <<known type,
\* connectionState, taskState>>; an unknown type and pong return early.
inferredStates(s, message) ==
    CASE message.type = "system" ->
            <<TRUE, IF message.status = "connected" THEN "connected" ELSE Null, Null>>
      [] message.type = "message" ->
            <<TRUE, Null,
              IF s.task = "idle" /\ s.connection = "connected" THEN "running" ELSE Null>>
      [] message.type = "result" ->
            <<TRUE, Null,
              IF message.dataStatus = "complete" THEN "completed"
              ELSE IF s.task = "stopping" THEN "idle" ELSE Null>>
      [] message.type = "completion" ->
            <<TRUE, Null,
              IF message.status = "cancelled" THEN "idle"
              ELSE IF message.status = "completed" THEN "completed" ELSE Null>>
      [] message.type = "input_request" -> <<TRUE, Null, "awaiting_input">>
      [] message.type = "stop" ->
            <<TRUE, Null,
              IF s.task \in {"stopping", "running", "starting", "completed"}
              THEN "idle" ELSE Null>>
      [] message.type = "error" -> <<TRUE, Null, "error">>
      [] OTHER -> <<FALSE, Null, Null>>

inferStateFromMessage(s, message) ==
    Then(setLastMessage(s, message), LAMBDA s1 :
    Then(inferredStates(s1, message), LAMBDA inf :
        IF inf[1] /\ (inf[2] # Null \/ inf[3] # Null)
        THEN batchUpdateStates(s1, inf[2], inf[3])
        ELSE s1))

\* Mutant: the watchdog forces idle without the synthetic error.
stopTimeoutCallback_NoError(s) ==
    Then([s EXCEPT !.stopTimer = FALSE, !.stopDue = 0], LAMBDA s1 :
        IF s1.task = "stopping"
        THEN updateTaskState(s1, "idle", NoError)
        ELSE s1)

\* The callback _handleStopTimeout hands to setTimeout.
stopTimeoutCallback(s) ==
    Then([s EXCEPT !.stopTimer = FALSE, !.stopDue = 0], LAMBDA s1 :
        IF s1.task = "stopping"
        THEN updateTaskState(s1, "idle", StopTimeoutError)
        ELSE s1)

reset(s) ==
    notifyListeners(
        [s EXCEPT !.stopTimeout = FALSE, !.stopTimer = FALSE, !.stopDue = 0,
                  !.connection = "closed", !.task = "idle", !.runId = Null,
                  !.lastError = Null, !.lastMessage = NoMessage])

(***************************************************************************)
(* Event-loop tasks.  A task starts with an empty log and the listeners'   *)
(* script for it, runs its handler, then the microtasks it queued.         *)
(***************************************************************************)
RECURSIVE runMicrotasks(_)
runMicrotasks(s) ==
    Then(s, LAMBDA s0 :
        IF s0.microtasks = <<>>
        THEN s0
        ELSE runMicrotasks(IF Head(s0.microtasks) = "conn"
                           THEN pendingConnectionMicrotask(
                                    [s0 EXCEPT !.microtasks = Tail(@)])
                           ELSE pendingTaskMicrotask(
                                    [s0 EXCEPT !.microtasks = Tail(@)])))

Begin(s, script) == [s EXCEPT !.log = <<>>, !.script = script]
Finish(s) == [runMicrotasks(s) EXCEPT !.script = <<>>]

Observed(op, state, error, script) ==
    [op |-> op, state |-> state, error |-> error, script |-> script,
     connection |-> sm.connection, task |-> sm.task, lastError |-> sm.lastError,
     stopTimer |-> sm.stopTimer]

(***************************************************************************)
(* AgentClient.  The client owns a StateManager; its methods are operators *)
(* on the pair a = [sm, cl].  A socket is a `ws` WebSocket with the        *)
(* handlers createWebSocketConnection attaches; a connect is one call of   *)
(* connect() suspended at an await.                                        *)
(***************************************************************************)
maxReconnectAttempts == 5
reconnectDelay == 1000
MaxReconnectDelay == 30000
NetworkRetryMaxAttempts == 3
NormalClosure == 1000
AbnormalClosure == 1006
CloseCodes == {NormalClosure, AbnormalClosure}

MaxSockets == 1          \* sockets alive at once
MaxConnects == 2         \* connect() calls suspended at once
MaxTimers == 1           \* pending reconnect timers
MaxStreak == 6           \* reconnects counted without a transport-open

Sockets == 1..MaxSockets
Connects == 1..MaxConnects
RunIds == {"1", "2"}      \* values of generateRunId (decimal strings)
NoSocket == 0

SocketError == "socket error"
ConnectTimeoutError == "connect timed out"
ConnectionLostError == "connection lost, max reconnect attempts reached"
ClientMessages == { Msg("system", "connected", Null), Msg("message", Null, Null) }

FreeSocket ==
    [readyState |-> "FREE", lastPingTime |-> "unset", pingWrapped |-> FALSE,
     timeout |-> FALSE]
NoConnect == [pc |-> "done", attempt |-> 0, caller |-> Null, socket |-> NoSocket]

AgentClientInit ==
    [ws |-> NoSocket,
     heartbeatTimer |-> FALSE,
     connectionHealthTimer |-> FALSE,
     reconnectAttempts |-> 0,
     sockets |-> [s \in Sockets |-> FreeSocket],
     connects |-> [p \in Connects |-> NoConnect],
     lossTimers |-> <<>>,        \* delays of the pending handleConnectionLoss timers
     errorTimers |-> 0,          \* handleExtendedError timers (never armed: every
                                 \* connection error is handled in state `error`)
     streak |-> 0,               \* reconnects scheduled since the last transport-open
     userDisconnected |-> FALSE, \* disconnect() was the user's last connection command
     messages |-> <<>>,          \* _messages
     fired |-> <<>>,             \* the messages handed to _onMessage.fire
     sent |-> <<>>,              \* types of the frames written to the socket
     saveSettled |-> "none",     \* how the last saveMessage promise settled
     startPc |-> "done"]         \* "validate": a startTask awaits validateCodebase

Min(x, y) == IF x <= y THEN x ELSE y

stopHeartbeat(c) ==
    [c EXCEPT !.heartbeatTimer = FALSE, !.connectionHealthTimer = FALSE]

startHeartbeat(c) ==
    [stopHeartbeat(c) EXCEPT !.heartbeatTimer = TRUE, !.connectionHealthTimer = TRUE]

cleanup(c) ==
    [stopHeartbeat(c) EXCEPT !.reconnectAttempts = 0, !.ws = NoSocket]

\* ws.close(): a socket that is connecting or open starts closing.
close(c, s) ==
    [c EXCEPT !.sockets[s].readyState =
                  IF @ \in {"CONNECTING", "OPEN"} THEN "CLOSING" ELSE @]

handleConnectionLoss(a) ==
    Then(a, LAMBDA a0 :
        IF a0.cl.reconnectAttempts >= maxReconnectAttempts
        THEN [a0 EXCEPT !.sm = updateConnectionState(@, "error", ConnectionLostError)]
        ELSE [a0 EXCEPT
                 !.cl.reconnectAttempts = @ + 1,
                 !.cl.streak = @ + 1,
                 !.sm = updateConnectionState(@, "connecting", NoError),
                 !.cl.lossTimers =
                     Append(@, Min(reconnectDelay * 2^a0.cl.reconnectAttempts,
                                   MaxReconnectDelay))])

disconnect(a) ==
    Then(a, LAMBDA a0 :
        IF a0.cl.ws # NoSocket
        THEN [a0 EXCEPT
                 !.cl = cleanup(close(@, a0.cl.ws)),
                 !.sm = updateTaskState(updateConnectionState(@, "closed", NoError),
                                        "idle", NoError)]
        ELSE a0)

handleExtendedError(a, type, retryable, message) ==
    Then(a, LAMBDA a0 :
        CASE type = "WEBSOCKET_CONNECTION_ERROR" ->
                IF retryable /\ isConnected(a0.sm)
                THEN [a0 EXCEPT !.cl.errorTimers = @ + 1]
                ELSE a0
          [] type = "TASK_EXECUTION_ERROR" ->
                [a0 EXCEPT !.sm = updateTaskState(@, "error", message)]
          [] type = "WEBSOCKET_TIMEOUT_ERROR" -> disconnect(a0)
          [] OTHER -> a0)

\* errorHandler.handleError: the client's listener is handleExtendedError.
handleError(a, type, retryable, message) ==
    handleExtendedError(a, type, retryable, message)

\* connectionOperation up to its first await (createTestRun).
connectionOperation(a, p, runId) ==
    [a EXCEPT !.sm = updateConnectionState(setRunId(@, runId), "connecting", NoError),
              !.cl.connects[p].pc = "createTestRun"]

FreeConnects(c) == { p \in Connects : c.connects[p].pc = "done" }
FreeSockets(c) == { s \in Sockets : c.sockets[s].readyState = "FREE" }

\* Mutant: the guard refuses only an established connection.
connect_ConnectedOnly(a, p, caller, runId) ==
    Then(a, LAMBDA a0 :
        IF isConnected(a0.sm)
        THEN a0
        ELSE connectionOperation(
                 [a0 EXCEPT !.cl.connects[p] =
                     [pc |-> "start", attempt |-> 1, caller |-> caller,
                      socket |-> NoSocket]],
                 p, runId))

\* connect(), suspended as call p if it gets past the guard.
connect(a, p, caller, runId) ==
    Then(a, LAMBDA a0 :
        IF isConnected(a0.sm) \/ a0.sm.connection = "connecting"
        THEN a0
        ELSE connectionOperation(
                 [a0 EXCEPT !.cl.connects[p] =
                     [pc |-> "start", attempt |-> 1, caller |-> caller,
                      socket |-> NoSocket]],
                 p, runId))

\* new WebSocket(wsUrl), the connect timeout armed, the promise pending.
createWebSocketConnection(a, p, s) ==
    [a EXCEPT !.cl.ws = s,
              !.cl.sockets[s] = [readyState |-> "CONNECTING", lastPingTime |-> "unset",
                                 pingWrapped |-> FALSE, timeout |-> TRUE],
              !.cl.connects[p].pc = "open",
              !.cl.connects[p].socket = s]

\* The promise of createWebSocketConnection rejected: the catch of
\* connectionOperation, then executeWithRetry, then the catch of connect and
\* of its caller.
connectFailed(a, p, message) ==
    Then([a EXCEPT !.sm = updateConnectionState(@, "error", message)], LAMBDA a1 :
        IF a1.cl.connects[p].attempt < NetworkRetryMaxAttempts
        THEN [a1 EXCEPT !.cl.connects[p].pc = "delay",
                        !.cl.connects[p].socket = NoSocket]
        ELSE Then(handleError(
                      handleError(a1, "WEBSOCKET_CONNECTION_ERROR", TRUE, message),
                      "WEBSOCKET_CONNECTION_ERROR", TRUE, message),
                  LAMBDA a2 :
                 IF a2.cl.connects[p].caller = "reconnect"
                 THEN handleConnectionLoss([a2 EXCEPT !.cl.connects[p] = NoConnect])
                 ELSE [a2 EXCEPT !.cl.connects[p] = NoConnect]))

Awaiting(c, s) == { p \in Connects : c.connects[p].pc = "open" /\ c.connects[p].socket = s }

reject(a, s, message) ==
    Then(a, LAMBDA a0 :
        IF Awaiting(a0.cl, s) # {}
        THEN connectFailed(a0, CHOOSE p \in Awaiting(a0.cl, s) : TRUE, message)
        ELSE a0)

\* resolve(): executeWithRetry and connect return.
resolve(a, s) ==
    [a EXCEPT !.cl.connects =
                  [p \in Connects |-> IF p \in Awaiting(a.cl, s) THEN NoConnect ELSE @[p]]]

\* The socket is gone with the promise unsettled: the call never resumes.
neverSettles(a, s) ==
    [a EXCEPT !.cl.connects =
                  [p \in Connects |-> IF p \in Awaiting(a.cl, s) THEN NoConnect ELSE @[p]]]

\* ws.on('open')
onOpen(a, s) ==
    resolve([a EXCEPT
                !.sm = updateTaskState(updateConnectionState(@, "connected", NoError),
                                       "idle", NoError),
                !.cl = startHeartbeat([@ EXCEPT !.sockets[s].timeout = FALSE,
                                                !.reconnectAttempts = 0,
                                                !.streak = 0])],
            s)

\* ws.on('pong'): this.ws may be null by now, and the handler then throws.
onPong(a, s) ==
    Then(a, LAMBDA a0 :
        IF a0.cl.ws # NoSocket
        THEN [a0 EXCEPT !.cl.sockets[a0.cl.ws].lastPingTime = "recent",
                        !.cl.reconnectAttempts = 0]
        ELSE a0)

\* ws.on('message') -> handleMessage
handleMessage(a, message) ==
    [a EXCEPT !.sm = inferStateFromMessage(@, message)]

\* ws.on('close'): _onError has no subscriber in the extension.
onClose(a, s, code) ==
    neverSettles([a EXCEPT
                !.cl = cleanup([@ EXCEPT !.sockets[s].timeout = FALSE]),
                !.sm = updateTaskState(updateConnectionState(@, "closed", NoError),
                                       "idle", NoError)],
            s)

\* ws.on('error')
onError(a, s) ==
    reject([a EXCEPT !.cl.sockets[s].timeout = FALSE,
                     !.sm = updateConnectionState(@, "error", SocketError)],
           s, SocketError)

\* The connect timeout of socket s.
onConnectTimeout(a, s) ==
    Then([a EXCEPT !.cl.sockets[s].timeout = FALSE], LAMBDA a0 :
        IF a0.cl.ws # NoSocket /\ a0.cl.sockets[a0.cl.ws].readyState = "CONNECTING"
        THEN reject([a0 EXCEPT !.cl = close(@, a0.cl.ws)], s, ConnectTimeoutError)
        ELSE a0)

\* The heartbeat interval: ws.ping(), which checkConnectionHealth has wrapped
\* to stamp _lastPingTime.
heartbeat(a) ==
    Then(a, LAMBDA a0 :
        IF isConnected(a0.sm) /\ a0.cl.ws # NoSocket
        THEN IF a0.cl.sockets[a0.cl.ws].pingWrapped
             THEN [a0 EXCEPT !.cl.sockets[a0.cl.ws].lastPingTime = "recent"]
             ELSE a0
        ELSE a0)

checkConnectionHealth(a) ==
    Then(a, LAMBDA a0 :
        IF ~isConnected(a0.sm) \/ a0.cl.ws = NoSocket
        THEN a0
        ELSE IF a0.cl.sockets[a0.cl.ws].readyState \in {"FREE", "CLOSING"}
             THEN handleConnectionLoss(a0)
             ELSE Then([a0 EXCEPT !.cl.sockets[a0.cl.ws].pingWrapped = TRUE],
                       LAMBDA a1 :
                      IF a1.cl.sockets[a1.cl.ws].lastPingTime # "unset"
                      THEN IF a1.cl.sockets[a1.cl.ws].lastPingTime = "stale"
                           THEN handleConnectionLoss(a1)
                           ELSE a1
                      ELSE [a1 EXCEPT !.cl.sockets[a1.cl.ws].lastPingTime = "recent"]))

(***************************************************************************)
(* McpTunnel and McpServer.  Both answer MCP JSON-RPC requests from the    *)
(* same ToolRegistry; the tunnel reaches its peer over a socket it keeps   *)
(* connected.  A JavaScript object is a record; a thrown value is Throw.   *)
(***************************************************************************)
tunnelMaxReconnectAttempts == 10
tunnelReconnectDelay == 1000
TOOL_NOT_FOUND == -32001
METHOD_NOT_FOUND == -32601
INTERNAL_ERROR == -32603
RESOURCE_NOT_FOUND == -32003

MaxPending == 1          \* requests awaiting tool.execute or readFile
MaxConcurrent == 2       \* the same, where requests run side by side
MaxTunnelSockets == 2    \* tunnel sockets alive at once
MaxRegistrations == 2    \* registration frames counted on one connection

TunnelSockets == 1..MaxTunnelSockets

NoTimer == 0
NoCode == 0              \* err.code undefined
NoFrame == [type |-> "none"]
toolRegistry == {"read_file", "run_command"}
ToolNames == toolRegistry \cup {"no_such_tool"}
ToolOutcomes == {"returns", "throws"}
\* msg.id of an mcp_request frame: the envelope's id, chosen by the peer
\* apart from the id of the JSON-RPC request the frame wraps.
EnvelopeIds == {"e1", "e2"}

\* params of a request: absent, or an object whose name (tools/call) or uri
\* (resources/read) is `name`.
Params(name) == [present |-> TRUE, name |-> name]
NoParams == [present |-> FALSE, name |-> Null]
ResourceUri == "file:///workspace/a.txt"

McpRequest(id, method, params) == [id |-> id, method |-> method, params |-> params]
HttpRequests ==
    { McpRequest("1", "tools/call", Params(n)) : n \in ToolNames }
      \cup { McpRequest("2", m, NoParams) : m \in {"ping", "initialized", "no/such"} }
McpRequests ==
    HttpRequests
      \cup { McpRequest("3", m, NoParams) :
                m \in {"tools/call", "initialize", "resources/read", "tools/list"} }
      \cup { McpRequest("4", "initialize", Params(Null)),
             McpRequest("5", "resources/read", Params(ResourceUri)) }

\* first and registrations record what was written to the connection: the
\* type of its first frame and the number of its mcp_register frames.
FreeTunnelSocket ==
    [readyState |-> "FREE", timeout |-> FALSE, waiter |-> Null,
     first |-> "none", registrations |-> 0]
FreeTunnelSockets(t) == { s \in TunnelSockets : t.sockets[s].readyState = "FREE" }

McpTunnelInit ==
    [state |-> "disconnected",
     ws |-> NoSocket,
     initialized |-> FALSE,
     reconnectTimer |-> NoTimer,     \* the delay of the armed timer
     heartbeatTimer |-> FALSE,
     reconnectAttempts |-> 0,
     runId |-> "",
     sockets |-> [s \in TunnelSockets |-> FreeTunnelSocket],
     pending |-> <<>>,               \* requests suspended at await tool.execute
     pendingIds |-> <<>>,            \* msg.id of the frame each of them came in
     pendingOn |-> <<>>,             \* the socket each of them was received on
     sent |-> NoFrame,               \* the frame this task wrote to the socket
     request |-> NoFrame,            \* the request this task answered (tunnel)
     envelope |-> Null,              \* msg.id of the frame that carried it
     response |-> NoFrame,           \* the JSON-RPC response this task made (tunnel)
     httpResponse |-> NoFrame,       \* the JSON-RPC response this task made (McpServer)
     userDisconnected |-> FALSE]     \* disconnect() was the user's last command

Throw(code, message) == [threw |-> TRUE, code |-> code, message |-> message, value |-> <<>>]
Return(value) == [threw |-> FALSE, code |-> NoCode, message |-> "", value |-> value]

\* Destructuring or dereferencing params that are undefined.
TypeError == Throw(NoCode, "Cannot read properties of undefined")

\* Mutant: a handler exception leaves handleToolCall as an exception.
handleToolCall_Rethrows(params, outcome) ==
    IF ~params.present
    THEN TypeError
    ELSE IF params.name \notin toolRegistry
    THEN Throw(TOOL_NOT_FOUND, "Tool not found")
    ELSE IF outcome = "returns"
         THEN Return([content |-> <<[type |-> "text", text |-> "output"]>>,
                      isError |-> FALSE])
         ELSE Throw(NoCode, "failure")

\* McpTunnel.handleToolCall and McpServer.handleToolCall
handleToolCall(params, outcome) ==
    IF ~params.present
    THEN TypeError
    ELSE IF params.name \notin toolRegistry
    THEN Throw(TOOL_NOT_FOUND, "Tool not found")
    ELSE IF outcome = "returns"
         THEN Return([content |-> <<[type |-> "text", text |-> "output"]>>,
                      isError |-> FALSE])
         ELSE Return([content |-> <<[type |-> "text", text |-> "Error: failure"]>>,
                      isError |-> TRUE])

handleInitialize(params) ==
    IF ~params.present
    THEN TypeError
    ELSE Return([protocolVersion |-> "2024-11-05", serverInfo |-> "aiat"])

handleToolsList == Return([tools |-> toolRegistry])

\* outcome is that of vscode.workspace.fs.readFile
handleResourceRead(params, outcome) ==
    IF ~params.present
    THEN TypeError
    ELSE IF outcome = "returns"
         THEN Return([contents |-> <<[type |-> "text", text |-> "content"]>>])
         ELSE Throw(RESOURCE_NOT_FOUND, "Resource not found")

dispatchMethod(method, params, outcome) ==
    CASE method = "initialize" -> handleInitialize(params)
      [] method \in {"initialized", "ping"} -> Return(<<>>)
      [] method = "tools/list" -> handleToolsList
      [] method = "tools/call" -> handleToolCall(params, outcome)
      [] method = "resources/read" -> handleResourceRead(params, outcome)
      [] OTHER -> Throw(METHOD_NOT_FOUND, "Method not found")

\* Mutant: what dispatchMethod throws leaves handleMcpRequest as thrown.
handleMcpRequest_Propagates(request, outcome) ==
    Then(dispatchMethod(request.method, request.params, outcome), LAMBDA r :
        IF r.threw
        THEN r
        ELSE [jsonrpc |-> "2.0", id |-> request.id, result |-> r.value])

handleMcpRequest(request, outcome) ==
    Then(dispatchMethod(request.method, request.params, outcome), LAMBDA r :
        IF r.threw
        THEN [jsonrpc |-> "2.0", id |-> request.id,
              error |-> [code |-> IF r.code # NoCode THEN r.code ELSE INTERNAL_ERROR,
                         message |-> IF r.message # "" THEN r.message
                                     ELSE "Internal error"]]
        ELSE [jsonrpc |-> "2.0", id |-> request.id, result |-> r.value])

updateState(t, state) == [t EXCEPT !.state = state]

tunnelStopHeartbeat(t) == [t EXCEPT !.heartbeatTimer = FALSE]
tunnelStartHeartbeat(t) == [tunnelStopHeartbeat(t) EXCEPT !.heartbeatTimer = TRUE]

tunnelCleanup(t) ==
    [tunnelStopHeartbeat(t) EXCEPT !.reconnectTimer = NoTimer, !.ws = NoSocket,
                                   !.initialized = FALSE]

send(t, frame) ==
    IF t.ws = NoSocket \/ t.sockets[t.ws].readyState # "OPEN"
    THEN t
    ELSE [t EXCEPT !.sent = frame,
                   !.sockets[t.ws].first = IF @ = "none" THEN frame.type ELSE @,
                   !.sockets[t.ws].registrations =
                       IF frame.type = "mcp_register" THEN Min(@ + 1, MaxRegistrations)
                       ELSE @]

sendRegistration(t) ==
    send(t, [type |-> "mcp_register", tools |-> toolRegistry,
             toolCount |-> Cardinality(toolRegistry)])

scheduleReconnect(t) ==
    IF t.reconnectTimer # NoTimer
    THEN t
    ELSE [t EXCEPT !.reconnectAttempts = @ + 1,
                   !.reconnectTimer = Min(tunnelReconnectDelay * 2^t.reconnectAttempts,
                                          MaxReconnectDelay)]

\* McpTunnel.connect; waiter is the caller awaiting the promise.
tunnelConnect(t, s, runId, waiter) ==
    IF t.state = "connected" \/ t.state = "connecting"
    THEN t
    ELSE [updateState([t EXCEPT !.runId = runId], "connecting") EXCEPT
             !.ws = s,
             !.sockets[s] = [FreeTunnelSocket EXCEPT !.readyState = "CONNECTING",
                                                     !.timeout = TRUE,
                                                     !.waiter = waiter]]

\* reject(): the catch of the reconnect timer's callback, if that is the caller.
tunnelReject(t, s) ==
    Then([t EXCEPT !.sockets[s].waiter = Null], LAMBDA t1 :
        IF t.sockets[s].waiter = "timer"
           /\ t1.reconnectAttempts < tunnelMaxReconnectAttempts
        THEN scheduleReconnect(t1)
        ELSE t1)

tunnelOnOpen(t, s) ==
    sendRegistration(
        tunnelStartHeartbeat(
            [updateState([t EXCEPT !.sockets[s].timeout = FALSE], "connected")
                EXCEPT !.reconnectAttempts = 0, !.sockets[s].waiter = Null]))

tunnelOnClose(t, s, code) ==
    Then(updateState(tunnelCleanup([t EXCEPT !.sockets[s].timeout = FALSE]),
                     "disconnected"),
         LAMBDA t1 :
        IF code # NormalClosure /\ t1.reconnectAttempts < tunnelMaxReconnectAttempts
        THEN scheduleReconnect(t1)
        ELSE t1)

tunnelOnError(t, s) ==
    tunnelReject(updateState([t EXCEPT !.sockets[s].timeout = FALSE], "error"), s)

tunnelOnConnectTimeout(t, s) ==
    Then([t EXCEPT !.sockets[s].timeout = FALSE], LAMBDA t0 :
        IF t0.ws # NoSocket /\ t0.sockets[t0.ws].readyState = "CONNECTING"
        THEN tunnelReject(updateState(close(t0, t0.ws), "error"), s)
        ELSE t0)

tunnelDisconnect(t) ==
    IF t.ws # NoSocket
    THEN updateState(tunnelCleanup(close(t, t.ws)), "disconnected")
    ELSE t

\* The reply written under the wrapped request's id in place of the
\* envelope's.
respond_UnderRequestId(t, id, request, outcome) ==
    Then(handleMcpRequest(request, outcome), LAMBDA response :
        send([t EXCEPT !.request = request,
                       !.envelope = id,
                       !.response = response,
                       !.initialized = IF request.method = "initialized" THEN TRUE ELSE @],
             [type |-> "mcp_response", requestId |-> request.id,
              response |-> response]))

\* The reply to a request whose dispatch has finished.
respond(t, id, request, outcome) ==
    Then(handleMcpRequest(request, outcome), LAMBDA response :
        send([t EXCEPT !.request = request,
                       !.envelope = id,
                       !.response = response,
                       !.initialized = IF request.method = "initialized" THEN TRUE ELSE @],
             [type |-> "mcp_response", requestId |-> id,
              response |-> response]))

\* The dispatch reaches an await that a later task settles: tool.execute
\* of a registered tool, or readFile of a resource.
Suspends(request) ==
    /\ request.params.present
    /\ \/ request.method = "tools/call" /\ request.params.name \in toolRegistry
       \/ request.method = "resources/read"

\* McpTunnel.handleMessage
tunnelHandleMessage(t, id, type, request) ==
    CASE type = "mcp_request" /\ request = NoFrame -> t
      [] type = "mcp_request" /\ request # NoFrame ->
            IF Suspends(request)
            THEN [t EXCEPT !.pending = Append(@, request),
                           !.pendingIds = Append(@, id)]
            ELSE respond(t, id, request, Null)
      [] type = "ping" -> send(t, [type |-> "pong"])
      [] OTHER -> t

\* McpServer.handleMcpRequest for a well-formed body: the response written.
httpHandleMcpRequest(t, request, outcome) ==
    [t EXCEPT !.httpResponse = handleMcpRequest(request, outcome)]

(***************************************************************************)
(* MessageStorage.  The history map lives in an external key-value store   *)
(* (globalState): get returns the object the last update stored, or        *)
(* undefined, and update takes effect when it is called.  Run ids are      *)
(* decimal strings; a key stands for its numeric value, which is also its  *)
(* place in Object.entries.  A call runs up to its first await when it is  *)
(* made and resumes in a microtask of the same event-loop task.            *)
(***************************************************************************)
MAX_HISTORY_PER_RUN == 1000
MAX_HISTORY_RUNS == 50
MAX_HISTORY_AGE == 604800000     \* 7 * 24 * 60 * 60 * 1000

NoObject == 0                    \* get() returned undefined
EmptyHistory == <<>>             \* {}
NoGroup == [id |-> Null, startTime |-> 0, size |-> 0]

AgentMessage(type, content, timestamp) ==
    [type |-> type, content |-> content, timestamp |-> timestamp]

\* { ...message, runId }
StoredMessage(message, runId) ==
    [f \in DOMAIN message \cup {"runId"} |-> IF f = "runId" THEN runId ELSE message[f]]

\* Mutant: the stored object is returned as it is.
withoutRunId_Keeps(stored) == stored

\* ({ runId: _, ...message }) => message
withoutRunId(stored) == [f \in DOMAIN stored \ {"runId"} |-> stored[f]]

\* A row as saveMessage and saveActiveGroup create it; title stands for the
\* fields extractReadableInfo fills.
NewRow(now) ==
    [messages |-> <<>>, lastUpdated |-> now, title |-> Null, activeGroup |-> NoGroup]

Put(history, runId, row) ==
    [q \in DOMAIN history \cup {runId} |-> IF q = runId THEN row ELSE history[q]]
Delete(history, runIds) == [q \in DOMAIN history \ runIds |-> history[q]]

\* messages.slice(-n)
sliceLast(messages, n) ==
    IF Len(messages) <= n THEN messages
    ELSE SubSeq(messages, Len(messages) - n + 1, Len(messages))

\* Array.prototype.sort by lastUpdated is stable: ties keep the order of
\* Object.entries.
sortsBefore(history, q, r) ==
    \/ history[q].lastUpdated < history[r].lastUpdated
    \/ history[q].lastUpdated = history[r].lastUpdated /\ q < r

\* Mutant: the cap is applied one row late.
cleanupHistory_OffByOne(history, now) ==
    Then(Delete(history, { r \in DOMAIN history :
                             now - history[r].lastUpdated > MAX_HISTORY_AGE }),
         LAMBDA h1 :
        IF Cardinality(DOMAIN h1) > MAX_HISTORY_RUNS + 1
        THEN Delete(h1, { r \in DOMAIN h1 :
                            Cardinality({ q \in DOMAIN h1 : sortsBefore(h1, q, r) })
                                < Cardinality(DOMAIN h1) - MAX_HISTORY_RUNS })
        ELSE h1)

cleanupHistory(history, now) ==
    Then(Delete(history, { r \in DOMAIN history :
                             now - history[r].lastUpdated > MAX_HISTORY_AGE }),
         LAMBDA h1 :
        IF Cardinality(DOMAIN h1) > MAX_HISTORY_RUNS
        THEN Delete(h1, { r \in DOMAIN h1 :
                            Cardinality({ q \in DOMAIN h1 : sortsBefore(h1, q, r) })
                                < Cardinality(DOMAIN h1) - MAX_HISTORY_RUNS })
        ELSE h1)

\* The store and the history objects alive in one task: store is the object
\* the store holds (NoObject: undefined), objs the objects by reference.
Heap(defined, history) ==
    IF defined THEN [store |-> 1, objs |-> <<history>>]
    ELSE [store |-> NoObject, objs |-> <<>>]

\* loadHistory: the stored object itself, or a new {} when the store holds
\* nothing or get throws.
loadHistory(h, getOk) ==
    IF getOk /\ h.store # NoObject
    THEN [heap |-> h, ref |-> h.store]
    ELSE [heap |-> [h EXCEPT !.objs = Append(@, EmptyHistory)],
          ref |-> Len(h.objs) + 1]

\* globalState.update(STORAGE_KEY, objs[ref]); a failure is caught by the caller.
update(h, ref, updateOk) == IF updateOk THEN [h EXCEPT !.store = ref] ELSE h

\* Mutant: the per-run cap keeps the oldest messages.
saveMessageBody_KeepsOldest(history, runId, message, now) ==
    Then(IF runId \in DOMAIN history THEN history ELSE Put(history, runId, NewRow(now)),
         LAMBDA h1 :
    Then(IF message.type = "start" THEN [h1 EXCEPT ![runId].title = "extracted"] ELSE h1,
         LAMBDA h2 :
    Then([h2 EXCEPT ![runId].messages = Append(@, StoredMessage(message, runId)),
                    ![runId].lastUpdated = now],
         LAMBDA h3 :
    Then(IF Len(h3[runId].messages) > MAX_HISTORY_PER_RUN
         THEN [h3 EXCEPT ![runId].messages = SubSeq(@, 1, MAX_HISTORY_PER_RUN)]
         ELSE h3,
         LAMBDA h4 : cleanupHistory(h4, now)))))

\* saveMessage from the row's creation to cleanupHistory (lines 53-83).
saveMessageBody(history, runId, message, now) ==
    Then(IF runId \in DOMAIN history THEN history ELSE Put(history, runId, NewRow(now)),
         LAMBDA h1 :
    Then(IF message.type = "start" THEN [h1 EXCEPT ![runId].title = "extracted"] ELSE h1,
         LAMBDA h2 :
    Then([h2 EXCEPT ![runId].messages = Append(@, StoredMessage(message, runId)),
                    ![runId].lastUpdated = now],
         LAMBDA h3 :
    Then(IF Len(h3[runId].messages) > MAX_HISTORY_PER_RUN
         THEN [h3 EXCEPT ![runId].messages = sliceLast(@, MAX_HISTORY_PER_RUN)]
         ELSE h3,
         LAMBDA h4 : cleanupHistory(h4, now)))))

\* Mutant: the group is stored only in a row that exists.
saveActiveGroupBody_ExistingOnly(history, runId, activeGroup, now) ==
    IF runId \in DOMAIN history
    THEN [history EXCEPT ![runId].activeGroup = activeGroup, ![runId].lastUpdated = now]
    ELSE history

saveActiveGroupBody(history, runId, activeGroup, now) ==
    Then(IF runId \in DOMAIN history THEN history ELSE Put(history, runId, NewRow(now)),
         LAMBDA h1 :
        [h1 EXCEPT ![runId].activeGroup = activeGroup, ![runId].lastUpdated = now])

\* A call of the store's API: op, and the arguments it uses.
Call(op, runId, message, activeGroup) ==
    [op |-> op, runId |-> runId, message |-> message, activeGroup |-> activeGroup]
NoRunId == 0                     \* the empty string
NoStoreMessage == AgentMessage(Null, 0, 0)

\* The call up to its first await: [heap, ref], ref the history it loaded.
storeCall(h, c, getOk) ==
    CASE c.runId = NoRunId /\ c.op # "clearAllHistory" -> [heap |-> h, ref |-> NoObject]
      [] c.op = "clearAllHistory" ->
            [heap |-> [h EXCEPT !.objs = Append(@, EmptyHistory),
                                !.store = Len(h.objs) + 1],
             ref |-> NoObject]
      [] OTHER -> loadHistory(h, getOk)

\* The call from its first await on, history being objs[ref].
storeResume(h, c, ref, now, updateOk) ==
    IF ref = NoObject
    THEN h
    ELSE Then(h.objs[ref], LAMBDA history :
         CASE c.op = "saveMessage" ->
                update([h EXCEPT !.objs[ref] =
                            saveMessageBody(history, c.runId, c.message, now)],
                       ref, updateOk)
           [] c.op = "saveActiveGroup" ->
                update([h EXCEPT !.objs[ref] =
                            saveActiveGroupBody(history, c.runId, c.activeGroup, now)],
                       ref, updateOk)
           [] c.op = "clearActiveGroup" /\ c.runId \in DOMAIN history ->
                update([h EXCEPT !.objs[ref][c.runId].activeGroup = NoGroup,
                                 !.objs[ref][c.runId].lastUpdated = now],
                       ref, updateOk)
           [] c.op = "setRunTitle" /\ c.runId \in DOMAIN history ->
                update([h EXCEPT !.objs[ref][c.runId].title = "title",
                                 !.objs[ref][c.runId].lastUpdated = now],
                       ref, updateOk)
           [] c.op = "deleteRunHistory" /\ c.runId \in DOMAIN history ->
                update([h EXCEPT !.objs[ref] = Delete(history, {c.runId})],
                       ref, updateOk)
           [] OTHER -> h)

RECURSIVE storeCalls(_, _, _, _)
storeCalls(h, calls, i, getOk) ==
    IF i > Len(calls)
    THEN [heap |-> h, refs |-> <<>>]
    ELSE Then(storeCall(h, calls[i], getOk), LAMBDA a :
         Then(storeCalls(a.heap, calls, i + 1, getOk), LAMBDA rest :
             [heap |-> rest.heap, refs |-> <<a.ref>> \o rest.refs]))

RECURSIVE storeResumes(_, _, _, _, _, _)
storeResumes(h, calls, refs, i, now, updateOk) ==
    IF i > Len(calls)
    THEN h
    ELSE Then(storeResume(h, calls[i], refs[i], now, updateOk), LAMBDA h1 :
             storeResumes(h1, calls, refs, i + 1, now, updateOk))

\* One event-loop task that makes `calls` one after the other without
\* awaiting: every call loads, then every call resumes, in order.
storeTask(h, calls, now, getOk, updateOk) ==
    Then(storeCalls(h, calls, 1, getOk), LAMBDA a :
        storeResumes(a.heap, calls, a.refs, 1, now, updateOk))

\* getMessagesForRun, for a store whose get succeeds.
getMessagesForRun(defined, history, runId) ==
    IF runId = NoRunId \/ ~defined \/ runId \notin DOMAIN history
    THEN <<>>
    ELSE [i \in 1..Len(history[runId].messages) |->
              withoutRunId(history[runId].messages[i])]

\* getActiveGroup; NoGroup is null.
getActiveGroup(defined, history, runId) ==
    IF runId = NoRunId \/ ~defined \/ runId \notin DOMAIN history
    THEN NoGroup
    ELSE history[runId].activeGroup

MaxTasks == 2            \* tasks that call the store
MaxGroupSize == 2        \* messages of an active group

TargetRuns == {1, MAX_HISTORY_RUNS + 1}
\* milliseconds between two tasks
Deltas == {0, 1, MAX_HISTORY_AGE, MAX_HISTORY_AGE + 1}
ActiveGroups == { [id |-> "group", startTime |-> 1, size |-> n] : n \in 1..MaxGroupSize }

\* The store after saveMessage was called, in turn, n times for run 1 and once
\* for each of the runs 2..k, a millisecond apart.
PreparedHistory(k, n) ==
    [r \in 1..k |->
        IF r = 1
        THEN [NewRow(n) EXCEPT
                 !.messages = [i \in 1..n |->
                                  StoredMessage(AgentMessage("message", i, i), 1)]]
        ELSE [NewRow(n + r) EXCEPT
                 !.messages = <<StoredMessage(AgentMessage("message", n + r, n + r), r)>>]]

PreparedStores ==
    { <<0, 0>>, <<1, MAX_HISTORY_PER_RUN - 1>>, <<MAX_HISTORY_RUNS, 1>> }

MessageStoreInit(k, n) ==
    [defined |-> k > 0,
     history |-> PreparedHistory(k, n),
     now |-> n + k,                  \* Date.now()
     tasks |-> 0,
     count |-> n + k,                \* messages passed to saveMessage so far
     calls |-> <<>>,                 \* the calls of the task just run
     before |-> EmptyHistory,        \* the history that task found
     sequential |-> TRUE,            \* no task so far made two calls
     saved |-> [r \in TargetRuns |-> \* messages saved to r since its row began
                   IF r <= k
                   THEN [i \in 1..Len(PreparedHistory(k, n)[r].messages) |->
                            withoutRunId(PreparedHistory(k, n)[r].messages[i])]
                   ELSE <<>>],
     groups |-> [r \in TargetRuns |-> NoGroup]]   \* group last saved for r

(***************************************************************************)
(* SpecSM: the StateManager driven through its public operations, with     *)
(* the listeners the extension registers (agentClient.ts:63-69,            *)
(* chatView.ts:84-102): they forward the value and never call back.        *)
(***************************************************************************)
SMUpdateConnection ==
    \E st \in ConnectionState, e \in ErrorArgs :
        /\ sm' = Finish(updateConnectionState(Begin(sm, <<>>), st, e))
        /\ last' = Observed("updateConnectionState", st, e, <<>>)
        /\ UNCHANGED <<cl, tn, ms>>

SMUpdateTask ==
    \E st \in TaskState, e \in ErrorArgs :
        /\ sm' = Finish(updateTaskState(Begin(sm, <<>>), st, e))
        /\ last' = Observed("updateTaskState", st, e, <<>>)
        /\ UNCHANGED <<cl, tn, ms>>

SMInfer ==
    \E m \in Messages :
        /\ sm' = Finish(inferStateFromMessage(Begin(sm, <<>>), m))
        /\ last' = Observed("inferStateFromMessage", m.type, NoError, <<>>)
        /\ UNCHANGED <<cl, tn, ms>>

SMStopTimer ==
    /\ sm.stopTimer
    /\ sm' = Finish(stopTimeoutCallback(Begin(sm, <<>>)))
    /\ last' = Observed("stopTimeout", Null, NoError, <<>>)
    /\ UNCHANGED <<cl, tn, ms>>

SMReset ==
    /\ sm' = Finish(reset(Begin(sm, <<>>)))
    /\ last' = Observed("reset", Null, NoError, <<>>)
    /\ UNCHANGED <<cl, tn, ms>>

LastInit ==
    [op |-> "init", state |-> Null, error |-> NoError, script |-> <<>>,
     connection |-> "closed", task |-> "idle", lastError |-> Null,
     stopTimer |-> FALSE]

InitSM ==
    /\ sm = StateManagerInit
    /\ cl = AgentClientInit
    /\ tn = McpTunnelInit
    /\ ms = MessageStoreInit(0, 0)
    /\ last = LastInit

NextSM == SMUpdateConnection \/ SMUpdateTask \/ SMInfer \/ SMStopTimer \/ SMReset

SpecSM == InitSM /\ [][NextSM]_vars

(***************************************************************************)
(* SpecWatchdog: the StateManager with the clock running.  Time passes     *)
(* between tasks in steps of TickMs up to MaxNow; a timer's callback runs  *)
(* no sooner than the time it was set for.  Each task records the time of  *)
(* an entry into stopping.                                                 *)
(***************************************************************************)
TickMs == 2500
MaxNow == 12500

Stamped(s) ==
    IF sm.task # "stopping" /\ s.task = "stopping"
    THEN [s EXCEPT !.stoppingSince = s.now]
    ELSE s

WdUpdateConnection ==
    \E st \in {"connected", "closed"} :
        /\ sm' = Stamped(Finish(updateConnectionState(Begin(sm, <<>>), st, NoError)))
        /\ last' = Observed("updateConnectionState", st, NoError, <<>>)
        /\ UNCHANGED <<cl, tn, ms>>

WdUpdateTask ==
    \E st \in {"running", "stopping"} :
        /\ sm' = Stamped(Finish(updateTaskState(Begin(sm, <<>>), st, NoError)))
        /\ last' = Observed("updateTaskState", st, NoError, <<>>)
        /\ UNCHANGED <<cl, tn, ms>>

WdInfer ==
    \E m \in Messages :
        /\ sm' = Stamped(Finish(inferStateFromMessage(Begin(sm, <<>>), m)))
        /\ last' = Observed("inferStateFromMessage", m.type, NoError, <<>>)
        /\ UNCHANGED <<cl, tn, ms>>

WdStopTimer ==
    /\ sm.stopTimer /\ sm.now >= sm.stopDue
    /\ sm' = Stamped(Finish(stopTimeoutCallback(Begin(sm, <<>>))))
    /\ last' = Observed("stopTimeout", Null, NoError, <<>>)
    /\ UNCHANGED <<cl, tn, ms>>

WdTick ==
    /\ sm.now + TickMs <= MaxNow
    /\ sm' = [Begin(sm, <<>>) EXCEPT !.now = @ + TickMs]
    /\ last' = Observed("tick", Null, NoError, <<>>)
    /\ UNCHANGED <<cl, tn, ms>>

NextWatchdog ==
    WdUpdateConnection \/ WdUpdateTask \/ WdInfer \/ WdStopTimer \/ WdTick

SpecWatchdog == InitSM /\ [][NextWatchdog]_vars

(***************************************************************************)
(* SpecRe: one update call into a StateManager whose listeners re-enter.   *)
(* It starts in any state two plain updates reach and makes one call,      *)
(* under every script of at most MaxReentrant listener calls.              *)
(***************************************************************************)
InitRe ==
    /\ \E c \in ConnectionState, t \in TaskState :
          sm = Begin(updateTaskState(
                        updateConnectionState(StateManagerInit, c, NoError),
                        t, NoError), <<>>)
    /\ cl = AgentClientInit
    /\ tn = McpTunnelInit
    /\ ms = MessageStoreInit(0, 0)
    /\ last = LastInit

ReUpdateConnection ==
    \E st \in ConnectionState, e \in ErrorArgs, sc \in Scripts :
        /\ last.op = "init"
        /\ sm' = Finish(updateConnectionState(Begin(sm, sc), st, e))
        /\ last' = Observed("updateConnectionState", st, e, sc)
        /\ UNCHANGED <<cl, tn, ms>>

ReUpdateTask ==
    \E st \in TaskState, e \in ErrorArgs, sc \in Scripts :
        /\ last.op = "init"
        /\ sm' = Finish(updateTaskState(Begin(sm, sc), st, e))
        /\ last' = Observed("updateTaskState", st, e, sc)
        /\ UNCHANGED <<cl, tn, ms>>

NextRe == ReUpdateConnection \/ ReUpdateTask

SpecRe == InitRe /\ [][NextRe]_vars

(***************************************************************************)
(* SpecClient: the AgentClient with its StateManager, driven by the user   *)
(* (connect, disconnect), the transport (open, message, pong, error,       *)
(* close) and its timers.  Delays are not measured: a timer that is armed  *)
(* may fire at any later task.                                             *)
(***************************************************************************)
Client == [sm |-> Begin(sm, <<>>), cl |-> cl]

WithinBounds(c) == Len(c.lossTimers) <= MaxTimers /\ c.streak <= MaxStreak

\* The task just run and its argument; the listeners' log is not kept.
Called(op, arg) == [LastInit EXCEPT !.op = op, !.state = arg]

Ran(a, op, arg) ==
    /\ WithinBounds(a.cl)
    /\ sm' = [Finish(a.sm) EXCEPT !.log = <<>>]
    /\ cl' = a.cl
    /\ last' = Called(op, arg)
    /\ UNCHANGED <<tn, ms>>

\* Call slot p can take a connect(): the call is refused, or the slot is free.
CanConnect(p) ==
    isConnected(sm) \/ sm.connection = "connecting" \/ p \in FreeConnects(cl)

Without(seq, i) == [j \in 1..(Len(seq) - 1) |-> IF j < i THEN seq[j] ELSE seq[j + 1]]

\* connect() called by the user; a call that passes the guard suspends as p.
UserConnectAs(p) ==
    \E r \in RunIds :
        /\ CanConnect(p)
        /\ \E a \in { connect([Client EXCEPT !.cl.userDisconnected = FALSE],
                              p, "user", r) } :
              Ran(a, "connect", Null)

\* One call in flight at a time.
UserConnect == UserConnectAs(1)

\* A second call may start while the first is suspended.
UserConnectAgain == \E p \in Connects : UserConnectAs(p)

UserDisconnect ==
    \E a \in { disconnect([Client EXCEPT !.cl.userDisconnected = TRUE]) } :
        Ran(a, "disconnect", Null)

CreateTestRunDone ==
    \E p \in Connects :
        /\ cl.connects[p].pc = "createTestRun"
        /\ FreeSockets(cl) # {}
        /\ \E a \in { createWebSocketConnection(
                         Client, p, CHOOSE s \in FreeSockets(cl) :
                                        \A s2 \in FreeSockets(cl) : s <= s2) } :
              Ran(a, "createWebSocket", Null)

RetryDelayDone ==
    \E p \in Connects, r \in RunIds :
        /\ cl.connects[p].pc = "delay"
        /\ \E a \in { connectionOperation(
                         [Client EXCEPT !.cl.connects[p].attempt = @ + 1], p, r) } :
              Ran(a, "retry", Null)

WsOpen ==
    \E s \in Sockets :
        /\ cl.sockets[s].readyState = "CONNECTING"
        /\ \E a \in { onOpen([Client EXCEPT !.cl.sockets[s].readyState = "OPEN"], s) } :
              Ran(a, "wsOpen", Null)

WsPong ==
    \E s \in Sockets :
        /\ cl.sockets[s].readyState = "OPEN"
        /\ \E a \in { onPong(Client, s) } : Ran(a, "wsPong", Null)

WsMessage ==
    \E s \in Sockets, m \in ClientMessages :
        /\ cl.sockets[s].readyState = "OPEN"
        /\ \E a \in { handleMessage(Client, m) } : Ran(a, "wsMessage", m.type)

\* The peer starts the closing handshake: no event yet.
WsClosing ==
    \E s \in Sockets :
        /\ cl.sockets[s].readyState = "OPEN"
        /\ \E a \in { [Client EXCEPT !.cl.sockets[s].readyState = "CLOSING"] } :
              Ran(a, "wsClosing", Null)

WsError ==
    \E s \in Sockets :
        /\ \/ cl.sockets[s].readyState \in {"CONNECTING", "OPEN"}
           \/ cl.sockets[s].readyState = "CLOSING" /\ Awaiting(cl, s) # {}
        /\ \E a \in { onError([Client EXCEPT !.cl.sockets[s].readyState = "CLOSING"], s) } :
              Ran(a, "wsError", Null)

WsClose ==
    \E s \in Sockets, code \in CloseCodes :
        /\ cl.sockets[s].readyState # "FREE"
        /\ \E a \in { onClose([Client EXCEPT !.cl.sockets[s] =
                                   [FreeSocket EXCEPT !.timeout = cl.sockets[s].timeout]],
                              s, code) } :
              Ran(a, "wsClose", IF code = NormalClosure THEN "normal" ELSE "abnormal")

ConnectTimeout ==
    \E s \in Sockets :
        /\ cl.sockets[s].timeout
        /\ \E a \in { onConnectTimeout(Client, s) } : Ran(a, "connectTimeout", Null)

Heartbeat ==
    /\ cl.heartbeatTimer
    /\ \E a \in { heartbeat(Client) } : Ran(a, "heartbeat", Null)

\* The health check reports "lost" when it found the connected client's
\* connection lost and handleConnectionLoss scheduled a reconnect.
HealthCheck ==
    /\ cl.connectionHealthTimer
    /\ \E a \in { checkConnectionHealth(Client) } :
          Ran(a, "healthCheck",
              IF isConnected(sm) /\ a.sm.connection = "connecting" THEN "lost" ELSE Null)

\* More than 60 s pass since _lastPingTime was stamped.
PingOverdue ==
    \E s \in Sockets :
        /\ cl.sockets[s].lastPingTime = "recent"
        /\ \E a \in { [Client EXCEPT !.cl.sockets[s].lastPingTime = "stale"] } :
              Ran(a, "pingOverdue", Null)

\* The timer handleConnectionLoss arms: connect(false).catch(handleConnectionLoss)
ReconnectTimer ==
    \E i \in DOMAIN cl.lossTimers, r \in RunIds, p \in {1} :
        /\ CanConnect(p)
        /\ \E a \in { connect([Client EXCEPT !.cl.lossTimers = Without(@, i)],
                              p, "reconnect", r) } :
              Ran(a, "reconnectTimer", Null)

InitClient ==
    /\ sm = StateManagerInit
    /\ cl = AgentClientInit
    /\ tn = McpTunnelInit
    /\ ms = MessageStoreInit(0, 0)
    /\ last = LastInit

NextClient ==
    \/ UserConnect \/ UserDisconnect \/ CreateTestRunDone \/ RetryDelayDone
    \/ WsOpen \/ WsPong \/ WsMessage \/ WsClosing \/ WsError \/ WsClose
    \/ ConnectTimeout \/ Heartbeat \/ HealthCheck \/ PingOverdue \/ ReconnectTimer

SpecClient == InitClient /\ [][NextClient]_vars

\* Timers that are armed fire, and the createTestRun request completes; the
\* user and the transport owe nothing.
SpecClientFair ==
    /\ InitClient /\ [][NextClient]_vars
    /\ WF_vars(ReconnectTimer) /\ WF_vars(RetryDelayDone) /\ WF_vars(CreateTestRunDone)
    /\ WF_vars(ConnectTimeout) /\ WF_vars(Heartbeat) /\ WF_vars(HealthCheck)

(***************************************************************************)
(* SpecConnect: connection attempts only, with up to MaxConnects calls of  *)
(* connect() suspended at once: the user may call connect() again while an *)
(* earlier call waits out its retry delay.                                 *)
(***************************************************************************)
NextConnect ==
    \/ UserConnectAgain \/ CreateTestRunDone \/ RetryDelayDone
    \/ WsOpen \/ WsError \/ WsClose \/ ConnectTimeout

SpecConnect == InitClient /\ [][NextConnect]_vars

(***************************************************************************)
(* SpecTunnel: the McpTunnel driven by its owner (connect, disconnect),    *)
(* the transport and its timers, and the McpServer answering requests.     *)
(***************************************************************************)
Tunnel ==
    [tn EXCEPT !.sent = NoFrame, !.request = NoFrame, !.response = NoFrame,
               !.envelope = Null, !.httpResponse = NoFrame]

TunnelRan(t, op, arg, outcome) ==
    /\ tn' = t
    /\ last' = [LastInit EXCEPT !.op = op, !.state = arg, !.error = outcome]
    /\ UNCHANGED <<sm, cl, ms>>

FirstFree(t) == CHOOSE s \in FreeTunnelSockets(t) : \A s2 \in FreeTunnelSockets(t) : s <= s2

TnConnect ==
    \E r \in RunIds :
        /\ tn.state \in {"connected", "connecting"} \/ FreeTunnelSockets(tn) # {}
        /\ \E t \in { tunnelConnect([Tunnel EXCEPT !.userDisconnected = FALSE],
                                    IF FreeTunnelSockets(tn) # {} THEN FirstFree(tn) ELSE NoSocket,
                                    r, "user") } :
              TunnelRan(t, "connect", Null, NoError)

TnDisconnect ==
    \E t \in { tunnelDisconnect([Tunnel EXCEPT !.userDisconnected = TRUE]) } :
        TunnelRan(t, "disconnect", Null, NoError)

TnOpen ==
    \E s \in TunnelSockets :
        /\ tn.sockets[s].readyState = "CONNECTING"
        /\ \E t \in { tunnelOnOpen([Tunnel EXCEPT !.sockets[s].readyState = "OPEN"], s) } :
              TunnelRan(t, "wsOpen", Null, NoError)

\* A frame arrives on an open socket: its envelope id is one of `ids`, the
\* request it wraps one of `requests`, and at most `most` requests are
\* suspended at a time.
TnMessageOf(ids, requests, most) ==
    \E s \in TunnelSockets, type \in {"mcp_request", "ping", "pong"},
       id \in ids, request \in requests :
        /\ tn.sockets[s].readyState = "OPEN"
        /\ type # "mcp_request"
              => /\ request = CHOOSE r \in requests : TRUE
                 /\ id = CHOOSE e \in ids : TRUE
        /\ Len(tn.pending) < most
        /\ \E t \in { Then(tunnelHandleMessage(Tunnel, id, type, request), LAMBDA t1 :
                         IF Len(t1.pending) > Len(tn.pending)
                         THEN [t1 EXCEPT !.pendingOn = Append(@, s)] ELSE t1) } :
              IF type = "mcp_request" /\ request # NoFrame
                 /\ request.method = "tools/call"
                 /\ request.params.present /\ ~Suspends(request)
              THEN TunnelRan(t, "toolsCall", request.params.name, NoError)
              ELSE TunnelRan(t, "wsMessage", type, NoError)

TnMessage == TnMessageOf({"e1"}, McpRequests, MaxPending)

RemoveAt(seq, i) == SubSeq(seq, 1, i - 1) \o SubSeq(seq, i + 1, Len(seq))

\* tool.execute or readFile of the i-th suspended request settles and its
\* handleMessage resumes.
TnToolDoneAt(i) ==
    \E outcome \in ToolOutcomes :
        /\ i \in DOMAIN tn.pending
        /\ \E t \in { respond([Tunnel EXCEPT !.pending = RemoveAt(@, i),
                                             !.pendingIds = RemoveAt(@, i),
                                             !.pendingOn = RemoveAt(@, i)],
                              tn.pendingIds[i], tn.pending[i], outcome) } :
              IF tn.pending[i].method = "tools/call"
              THEN TunnelRan(t, "toolsCall", tn.pending[i].params.name, outcome)
              ELSE TunnelRan(t, "resourceRead", Null, outcome)

TnToolDone == TnToolDoneAt(1)

TnError ==
    \E s \in TunnelSockets :
        /\ \/ tn.sockets[s].readyState \in {"CONNECTING", "OPEN"}
           \/ tn.sockets[s].readyState = "CLOSING" /\ tn.sockets[s].waiter # Null
        /\ \E t \in { tunnelOnError([Tunnel EXCEPT !.sockets[s].readyState = "CLOSING"], s) } :
              TunnelRan(t, "wsError", Null, NoError)

TnClose ==
    \E s \in TunnelSockets, code \in CloseCodes :
        /\ tn.sockets[s].readyState # "FREE"
        /\ \E t \in { tunnelOnClose(
                         [Tunnel EXCEPT !.sockets[s] =
                             [FreeTunnelSocket EXCEPT !.timeout = tn.sockets[s].timeout]],
                         s, code) } :
              TunnelRan(t, "wsClose", IF code = NormalClosure THEN "normal" ELSE "abnormal",
                        NoError)

TnConnectTimeout ==
    \E s \in TunnelSockets :
        /\ tn.sockets[s].timeout
        /\ \E t \in { tunnelOnConnectTimeout(Tunnel, s) } :
              TunnelRan(t, "connectTimeout", Null, NoError)

\* The timer scheduleReconnect arms: await this.connect(this.runId)
TnReconnectTimer ==
    /\ tn.reconnectTimer # NoTimer
    /\ tn.state \in {"connected", "connecting"} \/ FreeTunnelSockets(tn) # {}
    /\ \E t \in { tunnelConnect([Tunnel EXCEPT !.reconnectTimer = NoTimer],
                                IF FreeTunnelSockets(tn) # {} THEN FirstFree(tn) ELSE NoSocket,
                                tn.runId, "timer") } :
          TunnelRan(t, "reconnectTimer", Null, NoError)

\* A POST to the McpServer, answered when the tool (if any) has settled.  The
\* McpServer shares only the registry with the tunnel, so its requests are
\* taken while the tunnel is at rest.
HttpRequest ==
    \E request \in HttpRequests, outcome \in ToolOutcomes :
        /\ tn.ws = NoSocket /\ tn.reconnectTimer = NoTimer /\ tn.pending = <<>>
        /\ request.method # "tools/call" => outcome = "returns"
        /\ \E t \in { httpHandleMcpRequest(Tunnel, request, outcome) } :
            IF request.method = "tools/call"
            THEN TunnelRan(t, "httpToolsCall", request.params.name, outcome)
            ELSE TunnelRan(t, "httpRequest", request.method, NoError)

InitTunnel ==
    /\ sm = StateManagerInit
    /\ cl = AgentClientInit
    /\ tn = McpTunnelInit
    /\ ms = MessageStoreInit(0, 0)
    /\ last = LastInit

NextTunnel ==
    \/ TnConnect \/ TnDisconnect \/ TnOpen \/ TnMessage \/ TnToolDone \/ TnError
    \/ TnClose \/ TnConnectTimeout \/ TnReconnectTimer \/ HttpRequest

SpecTunnel == InitTunnel /\ [][NextTunnel]_vars

(***************************************************************************)
(* Requests side by side.  Every mcp_request frame starts its own          *)
(* handleMessage, and one that reaches tool.execute or readFile stays      *)
(* suspended there while further frames are handled; the suspended calls   *)
(* settle in any order.  The frames carry either envelope id and wrap a    *)
(* tools/call, a resources/read, a ping, or nothing at all.  The fair      *)
(* variant has every started tool.execute and readFile settle.             *)
(***************************************************************************)
PairRequests ==
    { McpRequest("1", "tools/call", Params("read_file")),
      McpRequest("5", "resources/read", Params(ResourceUri)),
      McpRequest("2", "ping", NoParams),
      NoFrame }

TnMessagePair == TnMessageOf(EnvelopeIds, PairRequests, MaxConcurrent)

TnToolDoneLater == \E i \in 2..MaxConcurrent : TnToolDoneAt(i)

NextPairing ==
    \/ TnConnect \/ TnOpen \/ TnMessagePair \/ TnToolDone \/ TnToolDoneLater
    \/ TnClose

SpecPairing == InitTunnel /\ [][NextPairing]_vars

SpecPairingFair ==
    SpecPairing /\ WF_vars(TnToolDone) /\ WF_vars(TnToolDoneLater)

(***************************************************************************)
(* SpecStore: the MessageStorage driven through its write operations, one  *)
(* event-loop task at a time.  A task makes one call, or two calls without *)
(* awaiting the first.  The store starts as an earlier session left it:    *)
(* empty, one long row, or a full set of rows.                             *)
(***************************************************************************)
\* What a single call does to the record of run q.
savedAfter(c, q, history) ==
    CASE c.op = "clearAllHistory" -> <<>>
      [] c.op = "deleteRunHistory" /\ c.runId = q -> <<>>
      [] c.op = "saveMessage" /\ c.runId = q -> Append(ms.saved[q], c.message)
      [] c.op = "saveMessage" /\ c.runId # q /\ q \notin DOMAIN history -> <<>>
      [] OTHER -> ms.saved[q]

groupAfter(c, q, history) ==
    CASE c.op = "clearAllHistory" -> NoGroup
      [] c.op \in {"deleteRunHistory", "clearActiveGroup"} /\ c.runId = q -> NoGroup
      [] c.op = "saveActiveGroup" /\ c.runId = q -> c.activeGroup
      [] c.op = "saveMessage" /\ c.runId # q /\ q \notin DOMAIN history -> NoGroup
      [] OTHER -> ms.groups[q]

StoreRan(calls, delta) ==
    /\ ms.tasks < MaxTasks
    /\ \E h \in { storeTask(Heap(ms.defined, ms.history), calls, ms.now + delta,
                            TRUE, TRUE) } :
       \E history \in { IF h.store # NoObject THEN h.objs[h.store] ELSE EmptyHistory } :
          ms' = [ms EXCEPT
                    !.defined = h.store # NoObject,
                    !.history = history,
                    !.now = @ + delta,
                    !.tasks = @ + 1,
                    !.count = @ + Len(calls),
                    !.calls = calls,
                    !.before = ms.history,
                    !.sequential = @ /\ Len(calls) = 1,
                    !.saved = IF Len(calls) = 1
                              THEN [q \in TargetRuns |-> savedAfter(calls[1], q, history)]
                              ELSE @,
                    !.groups = IF Len(calls) = 1
                               THEN [q \in TargetRuns |-> groupAfter(calls[1], q, history)]
                               ELSE @]
    /\ last' = [LastInit EXCEPT !.op = IF Len(calls) = 1 THEN calls[1].op ELSE "overlap"]
    /\ UNCHANGED <<sm, cl, tn>>

NewMessage(type, i, delta) == AgentMessage(type, ms.count + i, ms.now + delta)

SaveMessage ==
    \E r \in TargetRuns, type \in {"message", "start"}, delta \in Deltas :
        StoreRan(<<Call("saveMessage", r, NewMessage(type, 1, delta), NoGroup)>>, delta)

SaveActiveGroup ==
    \E r \in TargetRuns, g \in ActiveGroups, delta \in Deltas :
        StoreRan(<<Call("saveActiveGroup", r, NoStoreMessage, g)>>, delta)

ClearActiveGroup ==
    \E r \in TargetRuns, delta \in Deltas :
        StoreRan(<<Call("clearActiveGroup", r, NoStoreMessage, NoGroup)>>, delta)

SetRunTitle ==
    \E r \in TargetRuns, delta \in Deltas :
        StoreRan(<<Call("setRunTitle", r, NoStoreMessage, NoGroup)>>, delta)

DeleteRunHistory ==
    \E r \in TargetRuns, delta \in Deltas :
        StoreRan(<<Call("deleteRunHistory", r, NoStoreMessage, NoGroup)>>, delta)

ClearAllHistory ==
    \E delta \in Deltas :
        StoreRan(<<Call("clearAllHistory", NoRunId, NoStoreMessage, NoGroup)>>, delta)

\* The calls a task may make second, or first before another.
WriteCalls(i) ==
    { Call("saveMessage", r, NewMessage("message", i, 1), NoGroup) : r \in TargetRuns }
      \cup { Call("saveActiveGroup", r, NoStoreMessage, g) :
                r \in TargetRuns, g \in ActiveGroups }
      \cup { Call(op, r, NoStoreMessage, NoGroup) :
                op \in {"clearActiveGroup", "setRunTitle", "deleteRunHistory"},
                r \in TargetRuns }
      \cup { Call("clearAllHistory", NoRunId, NoStoreMessage, NoGroup) }

\* Two calls in one task: the second is made before the first resumes.
Overlap ==
    \E c1 \in WriteCalls(1), c2 \in WriteCalls(2) : StoreRan(<<c1, c2>>, 1)

InitStore ==
    /\ sm = StateManagerInit
    /\ cl = AgentClientInit
    /\ tn = McpTunnelInit
    /\ \E p \in PreparedStores : ms = MessageStoreInit(p[1], p[2])
    /\ last = LastInit

NextStore ==
    \/ SaveMessage \/ SaveActiveGroup \/ ClearActiveGroup \/ SetRunTitle
    \/ DeleteRunHistory \/ ClearAllHistory \/ Overlap

SpecStore == InitStore /\ [][NextStore]_vars

(***************************************************************************)
(* SpecTask: the AgentClient with its message list, its archive and its    *)
(* observers.  The client is connected by the user; frames arrive with the *)
(* members their type carries; the key-value store may fail on get or on   *)
(* update; the user stops the task.  The archive's record of what was      *)
(* saved (saved, groups, calls) is not kept here.                          *)
(***************************************************************************)
MaxFrames == 2           \* messages handled or sent by the client

TaskFrames ==
    { Msg("message", Null, Null),
      Msg("result", Null, "complete"), Msg("result", Null, "partial"),
      Msg("input_request", Null, Null),
      Msg("completion", "cancelled", "cancelled"),
      Msg("pong", Null, Null) }

\* get currentRunId(): state.runId || ''
currentRunId(a) == IF a.sm.runId = Null THEN "" ELSE a.sm.runId

\* The key of a run id in the history map.
RunKey(runId) ==
    CASE runId = "1" -> 1
      [] runId = "2" -> 2
      [] OTHER -> NoRunId

\* Mutant: a failure of the store rejects the promise and the map is left.
saveMessage_NoCatch(h, runId, message, now, getOk, updateOk) ==
    IF getOk /\ updateOk
    THEN [heap |-> storeTask(h, <<Call("saveMessage", runId, message, NoGroup)>>,
                             now, getOk, updateOk),
          settled |-> "fulfilled"]
    ELSE [heap |-> h, settled |-> "rejected"]

\* saveMessage as its caller sees it: the store afterwards and the promise.
\* Everything after the guard runs inside try/catch, and loadHistory catches
\* a failing get itself.
saveMessage(h, runId, message, now, getOk, updateOk) ==
    [heap |-> storeTask(h, <<Call("saveMessage", runId, message, NoGroup)>>,
                        now, getOk, updateOk),
     settled |-> "fulfilled"]

\* this._messageStorage.saveMessage(this.currentRunId, message).catch(log)
archive(a, message, getOk, updateOk) ==
    Then(saveMessage(Heap(a.ms.defined, a.ms.history), RunKey(currentRunId(a)),
                     message, a.ms.now, getOk, updateOk),
         LAMBDA r :
        [a EXCEPT !.ms.defined = r.heap.store # NoObject,
                  !.ms.history = IF r.heap.store # NoObject
                                 THEN r.heap.objs[r.heap.store] ELSE EmptyHistory,
                  !.cl.saveSettled = r.settled])

\* message with its direction member.
Directed(message, direction) ==
    [f \in DOMAIN message \cup {"direction"} |->
        IF f = "direction" THEN direction ELSE message[f]]

\* The direction handleMessage gives a frame: a stop frame is shown as the
\* user's.
messageDirection(type) == IF type = "stop" THEN "outgoing" ELSE "incoming"

\* _messages.push(message); saveMessage(...).catch(...); _onMessage.fire(message)
\* The clock is read as one millisecond later at each message.
record(a, type, direction, getOk, updateOk) ==
    Then(Directed(AgentMessage(type, Len(a.cl.messages) + 1, a.ms.now + 1), direction),
         LAMBDA m :
    Then([a EXCEPT !.cl.messages = Append(@, m), !.ms.now = @ + 1], LAMBDA a1 :
    Then(archive(a1, m, getOk, updateOk), LAMBDA a2 :
        [a2 EXCEPT !.cl.fired = Append(@, m)])))

\* handleMessage with the message list, the archive and the event.
handleMessageArchived(a, message, getOk, updateOk) ==
    Then([a EXCEPT !.sm = inferStateFromMessage(@, message)], LAMBDA a1 :
        IF message.type = "pong"
        THEN a1
        ELSE record(a1, message.type, messageDirection(message.type), getOk, updateOk))

\* Mutant: sendMessage records the message whatever the connection state.
sendMessage_Unguarded(a, type, getOk, updateOk) ==
    IF a.cl.ws = NoSocket
    THEN [a |-> record(a, type, "outgoing", getOk, updateOk), ok |-> FALSE]
    ELSE [a |-> record(IF a.cl.sockets[a.cl.ws].readyState = "OPEN"
                       THEN [a EXCEPT !.cl.sent = Append(@, type)]
                       ELSE a,
                       type, "outgoing", getOk, updateOk),
          ok |-> TRUE]

\* sendMessage: [a, ok].  ws.send on a socket that is no longer open drops
\* the frame without throwing.
sendMessage(a, type, getOk, updateOk) ==
    IF ~isConnected(a.sm) \/ a.cl.ws = NoSocket
    THEN [a |-> a, ok |-> FALSE]
    ELSE [a |-> record(IF a.cl.sockets[a.cl.ws].readyState = "OPEN"
                       THEN [a EXCEPT !.cl.sent = Append(@, type)]
                       ELSE a,
                       type, "outgoing", getOk, updateOk),
          ok |-> TRUE]

\* Mutant: stopTask does not ask canStopTask.
stopTask_Unchecked(a, getOk, updateOk) ==
    Then([a EXCEPT !.sm = updateTaskState(@, "stopping", NoError)], LAMBDA a1 :
    Then(sendMessage(a1, "stop", getOk, updateOk), LAMBDA s :
        IF s.ok
        THEN [a |-> s.a, ret |-> TRUE]
        ELSE [a |-> [s.a EXCEPT !.sm = updateTaskState(runMicrotasks(@), "running",
                                                       "send stop failed")],
              ret |-> FALSE]))

\* stopTask: [a, ret].  sendMessage never throws, so executeWithRetry calls it
\* once; the continuation runs after the microtasks queued so far.
stopTask(a, getOk, updateOk) ==
    IF ~canStopTask(a.sm)
    THEN [a |-> [sm |-> handleError([sm |-> a.sm, cl |-> a.cl],
                                    "TASK_STOP_ERROR", FALSE, "no running task").sm,
                 cl |-> a.cl, ms |-> a.ms],
          ret |-> FALSE]
    ELSE Then([a EXCEPT !.sm = updateTaskState(@, "stopping", NoError)], LAMBDA a1 :
         Then(sendMessage(a1, "stop", getOk, updateOk), LAMBDA s :
             IF s.ok
             THEN [a |-> s.a, ret |-> TRUE]
             ELSE [a |-> [s.a EXCEPT !.sm = updateTaskState(runMicrotasks(@), "running",
                                                            "send stop failed")],
                   ret |-> FALSE]))

\* errorHandler.handleError called on behalf of the client a = [sm, cl, ms].
taskError(a, type) ==
    [a EXCEPT !.sm = handleError([sm |-> a.sm, cl |-> a.cl], type, FALSE,
                                 "task error").sm]

\* Mutant: the guard of startTask looks at the connection only.
startTask_ConnectedOnly(a, codebase) ==
    IF ~isConnected(a.sm)
    THEN [a |-> taskError(a, "TASK_START_ERROR"), ret |-> "false"]
    ELSE Then([a EXCEPT !.sm = updateTaskState(@, "starting", NoError)], LAMBDA a1 :
         IF codebase = "none"
         THEN [a |-> [taskError(a1, "TASK_START_ERROR") EXCEPT
                         !.sm = updateTaskState(@, "idle", NoError)],
               ret |-> "false"]
         ELSE [a |-> [a1 EXCEPT !.cl.startPc = "validate"], ret |-> "pending"])

\* startTask up to await validateCodebase: [a, ret].  codebase is what
\* getDefaultCodebase returns, "none" for ''.
startTask(a, codebase) ==
    IF ~canStartTask(a.sm)
    THEN [a |-> taskError(a, "TASK_START_ERROR"), ret |-> "false"]
    ELSE Then([a EXCEPT !.sm = updateTaskState(@, "starting", NoError)], LAMBDA a1 :
         IF codebase = "none"
         THEN [a |-> [taskError(a1, "TASK_START_ERROR") EXCEPT
                         !.sm = updateTaskState(@, "idle", NoError)],
               ret |-> "false"]
         ELSE [a |-> [a1 EXCEPT !.cl.startPc = "validate"], ret |-> "pending"])

\* Mutant: a start frame that could not be sent leaves the task as it is.
startTaskValidated_NoRollback(a, outcome, getOk, updateOk) ==
    Then([a EXCEPT !.cl.startPc = "done"], LAMBDA a0 :
    CASE outcome = "invalid" ->
            [a |-> [taskError(a0, "TASK_START_ERROR") EXCEPT
                       !.sm = updateTaskState(@, "idle", NoError)],
             ret |-> "false"]
      [] outcome = "throws" ->
            [a |-> [taskError(a0, "TASK_START_ERROR") EXCEPT
                       !.sm = updateTaskState(@, "error", "start threw")],
             ret |-> "false"]
      [] OTHER ->
            Then(sendMessage(a0, "start", getOk, updateOk), LAMBDA s :
                IF s.ok
                THEN [a |-> s.a, ret |-> "true"]
                ELSE [a |-> s.a, ret |-> "false"]))

\* startTask from the result of validateCodebase on: [a, ret].  outcome
\* "throws" is an exception inside the try block (the catch at 633-645).
startTaskValidated(a, outcome, getOk, updateOk) ==
    Then([a EXCEPT !.cl.startPc = "done"], LAMBDA a0 :
    CASE outcome = "invalid" ->
            [a |-> [taskError(a0, "TASK_START_ERROR") EXCEPT
                       !.sm = updateTaskState(@, "idle", NoError)],
             ret |-> "false"]
      [] outcome = "throws" ->
            [a |-> [taskError(a0, "TASK_START_ERROR") EXCEPT
                       !.sm = updateTaskState(@, "error", "start threw")],
             ret |-> "false"]
      [] OTHER ->
            Then(sendMessage(a0, "start", getOk, updateOk), LAMBDA s :
                IF s.ok
                THEN [a |-> s.a, ret |-> "true"]
                ELSE [a |-> [s.a EXCEPT !.sm = updateTaskState(runMicrotasks(@), "idle",
                                                               "send start failed")],
                      ret |-> "false"]))

\* sendInputResponse: [a, ok]
sendInputResponse(a, getOk, updateOk) ==
    sendMessage(a, "input_response", getOk, updateOk)

TaskClient == [sm |-> Begin(sm, <<>>), cl |-> cl, ms |-> ms]

\* What the key-value store did in the task: last.error.
StoreFailure(getOk, updateOk) ==
    CASE getOk /\ updateOk -> NoError
      [] ~getOk /\ updateOk -> "get failed"
      [] getOk /\ ~updateOk -> "update failed"
      [] OTHER -> "get and update failed"

RanTask(a, op, arg, failure) ==
    /\ Len(a.cl.messages) <= MaxFrames
    /\ sm' = [Finish(a.sm) EXCEPT !.log = <<>>]
    /\ cl' = a.cl
    /\ ms' = a.ms
    /\ last' = [Called(op, arg) EXCEPT !.error = failure]
    /\ UNCHANGED tn

\* The store is called only by a sendMessage that passes its guard.
Sends == isConnected(sm) /\ cl.ws # NoSocket

\* What the store may do in a task: <<getOk, updateOk>>.
StoreWorks == { <<TRUE, TRUE>> }
StoreMayFail == BOOLEAN \X BOOLEAN

Frame(stores) ==
    \E s \in Sockets, m \in TaskFrames, f \in stores :
        /\ cl.sockets[s].readyState = "OPEN"
        /\ m.type = "pong" => f \in StoreWorks         \* the store is not called
        /\ \E a \in { handleMessageArchived(TaskClient, m, f[1], f[2]) } :
              RanTask(a, "wsFrame", m.type, StoreFailure(f[1], f[2]))

StopTask(stores) ==
    \E f \in stores :
        /\ (~canStopTask(sm) \/ ~Sends) => f \in StoreWorks
        /\ \E r \in { stopTask(TaskClient, f[1], f[2]) } :
            RanTask(r.a, "stopTask", IF r.ret THEN "true" ELSE "false",
                    StoreFailure(f[1], f[2]))

WsFrame == Frame(StoreMayFail)
UserStopTask == StopTask(StoreMayFail)

ValidateOutcomes == {"valid", "invalid", "throws"}

CmdFrame == Frame(StoreWorks)
CmdStopTask == StopTask(StoreWorks)

CmdStartTask ==
    \E codebase \in {"none", "some"} :
        /\ cl.startPc = "done" \/ ~canStartTask(sm)
        /\ \E r \in { startTask(TaskClient, codebase) } :
              RanTask(r.a, "startTask", r.ret, NoError)

CmdValidateCodebaseDone ==
    \E outcome \in ValidateOutcomes :
        /\ cl.startPc = "validate"
        /\ \E r \in { startTaskValidated(TaskClient, outcome, TRUE, TRUE) } :
              RanTask(r.a, "startTaskValidated", r.ret, outcome)

CmdSendInputResponse ==
    \E r \in { sendInputResponse(TaskClient, TRUE, TRUE) } :
        RanTask(r.a, "sendInputResponse", IF r.ok THEN "true" ELSE "false", NoError)

InitTask ==
    /\ sm = StateManagerInit
    /\ cl = AgentClientInit
    /\ tn = McpTunnelInit
    /\ ms = MessageStoreInit(0, 0)
    /\ last = LastInit

NextTask ==
    \/ UserConnect \/ CreateTestRunDone \/ WsOpen \/ WsClose
    \/ WsFrame \/ UserStopTask \/ SMStopTimer

SpecTask == InitTask /\ [][NextTask]_vars

(***************************************************************************)
(* SpecCommand: the AgentClient driven by the user's task commands         *)
(* (startTask, stopTask, sendInputResponse) and the frames of the peer,    *)
(* with a store that works and a transport that closes with a close event. *)
(***************************************************************************)
NextCommand ==
    \/ UserConnect \/ CreateTestRunDone \/ WsOpen \/ WsClose
    \/ CmdFrame \/ CmdStopTask \/ SMStopTimer
    \/ CmdStartTask \/ CmdValidateCodebaseDone \/ CmdSendInputResponse

SpecCommand == InitTask /\ [][NextCommand]_vars

(***************************************************************************)
(* SpecRollback: startTask and stopTask on a connection that can be lost   *)
(* without a close event (the health check finds it and calls              *)
(* handleConnectionLoss).  The peer sends no frames.                       *)
(***************************************************************************)
NextRollback ==
    \/ UserConnect \/ CreateTestRunDone \/ WsOpen \/ WsClose
    \/ WsClosing \/ HealthCheck
    \/ CmdStopTask \/ SMStopTimer
    \/ CmdStartTask \/ CmdValidateCodebaseDone

SpecRollback == InitTask /\ [][NextRollback]_vars

\* A frame the peer sent before it saw the client's close frame: the socket
\* had opened (the open handler cleared its connect timeout) and is closing,
\* its message handler still attached.
LateFrame ==
    \E s \in Sockets, m \in TaskFrames :
        /\ cl.sockets[s].readyState = "CLOSING" /\ ~cl.sockets[s].timeout
        /\ \E a \in { handleMessageArchived(TaskClient, m, TRUE, TRUE) } :
              RanTask(a, "wsLateFrame", m.type, NoError)

(***************************************************************************)
(* SpecDisconnect: the user connects and disconnects while the peer sends  *)
(* frames; a frame may arrive between disconnect() and the close event.    *)
(* No socket errors and no connect timeouts, so a closing socket whose     *)
(* connect timeout is cleared is one that had opened.                      *)
(***************************************************************************)
NextDisconnect ==
    \/ UserConnect \/ CreateTestRunDone \/ WsOpen \/ UserDisconnect \/ WsClose
    \/ CmdFrame \/ LateFrame

SpecDisconnect == InitTask /\ [][NextDisconnect]_vars

(***************************************************************************)
(* ErrorHandler.executeWithRetry.  A call is a record: the attempt the     *)
(* loop is at, where the call is suspended (pc), how often the operation   *)
(* was invoked, the errors it threw, the delays awaited, and how the call  *)
(* settled.  backoffFactor is a fraction <<numerator, denominator>>.       *)
(***************************************************************************)
RetryConfig(maxAttempts, baseDelay, maxDelay, backoffFactor) ==
    [defined |-> TRUE, maxAttempts |-> maxAttempts, baseDelay |-> baseDelay,
     maxDelay |-> maxDelay, backoffFactor |-> backoffFactor]

UndefinedConfig == [RetryConfig(0, 0, 0, <<1, 1>>) EXCEPT !.defined = FALSE]

networkRetryConfig == RetryConfig(3, 1000, 10000, <<2, 1>>)
taskRetryConfig == RetryConfig(2, 500, 5000, <<3, 2>>)
mcpRetryConfig == RetryConfig(3, 2000, 15000, <<2, 1>>)

\* A customRetryConfig whose third delay meets its cap.
CappedRetryConfig == RetryConfig(4, 1000, 3000, <<2, 1>>)

RetryErrorTypes ==
    {"WEBSOCKET_CONNECTION_ERROR", "TASK_START_ERROR", "MCP_TOOL_ERROR", "UNKNOWN_ERROR"}

\* this.retryConfigs.get(errorType)
retryConfigsGet(errorType) ==
    CASE errorType \in {"WEBSOCKET_CONNECTION_ERROR", "WEBSOCKET_TIMEOUT_ERROR",
                        "NETWORK_ERROR"} -> networkRetryConfig
      [] errorType \in {"TASK_START_ERROR", "TASK_STOP_ERROR"} -> taskRetryConfig
      [] errorType \in {"MCP_SERVER_START_ERROR", "MCP_TOOL_ERROR"} -> mcpRetryConfig
      [] OTHER -> UndefinedConfig

createError(message, type, severity, retryable) ==
    [message |-> message, type |-> type, severity |-> severity, retryable |-> retryable]

wrapError(originalError, type, severity, retryable) ==
    createError(originalError.message, type, severity, retryable)

calculateRetryDelay(attempt, config) ==
    IF ~config.defined
    THEN 1000
    ELSE Min((config.baseDelay * config.backoffFactor[1]^(attempt - 1))
                 \div config.backoffFactor[2]^(attempt - 1),
             config.maxDelay)

\* config?.maxAttempts || 1
maxAttemptsOf(config) ==
    IF config.defined /\ config.maxAttempts # 0 THEN config.maxAttempts ELSE 1

NoExtendedError == createError("", "UNKNOWN_ERROR", "medium", FALSE)

\* executeWithRetry up to its first await operation().
executeWithRetry(errorType, customRetryConfig) ==
    [errorType |-> errorType,
     config |-> IF customRetryConfig.defined THEN customRetryConfig
                ELSE retryConfigsGet(errorType),
     attempt |-> 1,
     pc |-> "operation",
     invocations |-> 0,
     thrown |-> <<>>,             \* the errors the operation rejected with
     waits |-> <<>>,              \* the delays awaited
     lastError |-> NoExtendedError,
     handled |-> 0]               \* calls of handleError

\* await operation() fulfilled.
operationResolved(call) ==
    [call EXCEPT !.invocations = @ + 1, !.pc = "resolved"]

\* await operation() rejected with `error`: the catch block.
operationRejected(call, error) ==
    Then([call EXCEPT !.invocations = @ + 1,
                      !.thrown = Append(@, error),
                      !.lastError = wrapError(error, call.errorType, "medium", TRUE)],
         LAMBDA c1 :
        IF c1.attempt < maxAttemptsOf(c1.config) /\ c1.lastError.retryable
        THEN [c1 EXCEPT !.pc = "delay",
                        !.waits = Append(@, calculateRetryDelay(c1.attempt, c1.config))]
        ELSE [c1 EXCEPT !.pc = "rejected", !.handled = @ + 1])

\* await this.delay(delay) fulfilled: the loop goes round.
delayElapsed(call) ==
    [call EXCEPT !.attempt = @ + 1, !.pc = "operation"]

(***************************************************************************)
(* SpecRetry: one call of executeWithRetry, for every error type with a    *)
(* configuration of its own, one without, and a custom configuration; the  *)
(* operation fulfils or rejects with an error its thrower marked retryable *)
(* or not.  The call is held in `last`.                                    *)
(***************************************************************************)
InitRetry ==
    /\ sm = StateManagerInit
    /\ cl = AgentClientInit
    /\ tn = McpTunnelInit
    /\ ms = MessageStoreInit(0, 0)
    /\ \E errorType \in RetryErrorTypes, custom \in {UndefinedConfig, CappedRetryConfig} :
          last = executeWithRetry(errorType, custom)

RetryOperationResolves ==
    /\ last.pc = "operation"
    /\ last' = operationResolved(last)
    /\ UNCHANGED <<sm, cl, tn, ms>>

RetryOperationRejects ==
    \E retryable \in BOOLEAN :
        /\ last.pc = "operation"
        /\ last' = operationRejected(
                       last, createError("operation failed", last.errorType, "high",
                                         retryable))
        /\ UNCHANGED <<sm, cl, tn, ms>>

RetryDelayElapsed ==
    /\ last.pc = "delay"
    /\ last' = delayElapsed(last)
    /\ UNCHANGED <<sm, cl, tn, ms>>

NextRetry == RetryOperationResolves \/ RetryOperationRejects \/ RetryDelayElapsed

SpecRetry == InitRetry /\ [][NextRetry]_vars

(***************************************************************************)
(* Claims about the StateManager                                           *)
(***************************************************************************)
NotesOf(log, kind) == { i \in DOMAIN log : log[i].k = kind }
Suppressed == last.error = NoError /\
              \/ last.op = "updateConnectionState" /\ last.state = last.connection
              \/ last.op = "updateTaskState" /\ last.state = last.task

\* C1: an applied updateConnectionState to `closed` or `error` leaves the task
\* `idle` when it completes, whatever the task was, and the task listeners get
\* exactly one `idle` notification for the reset iff the task was not idle.
C1_CouplingResetsTask ==
    (last.op = "updateConnectionState" /\ ~Suppressed
       /\ last.state \in {"closed", "error"})
    => /\ sm.connection = last.state
       /\ sm.task = "idle"
       /\ Cardinality({ i \in NotesOf(sm.log, "task") : sm.log[i].task = "idle" })
            = (IF last.task = "idle" THEN 0 ELSE 1)
       /\ Cardinality(NotesOf(sm.log, "task"))
            = (IF last.task = "idle" THEN 0 ELSE 1)

C1_Witness ==
    /\ last.op = "updateConnectionState" /\ last.state = "error"
    /\ last.connection = "connected" /\ last.task = "awaiting_input"
    /\ sm.task = "idle"

\* C2: while the task is `stopping` a watchdog timer is armed, and when the
\* watchdog fires with the task still `stopping` the task becomes `idle` with a
\* non-null lastError: `stopping` is never permanent.
C2_StopWatchdog ==
    /\ sm.task = "stopping" => sm.stopTimer
    /\ (last.op = "stopTimeout" /\ last.task = "stopping")
         => (sm.task = "idle" /\ sm.lastError # Null /\ ~sm.stopTimer)

C2_Witness ==
    /\ last.op = "stopTimeout" /\ last.task = "stopping" /\ last.lastError = Null
    /\ sm.task = "idle" /\ sm.lastError = StopTimeoutError

\* C3: an updateConnectionState call with the current state and no error is
\* suppressed (state and lastError unchanged, no listener invoked); any other
\* call leaves AppState.connection equal to its argument and notifies the
\* generic listeners exactly once and the connection listeners exactly once.
C3_ConnectionUpdates ==
    last.op = "updateConnectionState" =>
        IF Suppressed
        THEN /\ sm.connection = last.connection
             /\ sm.task = last.task
             /\ sm.lastError = last.lastError
             /\ sm.log = <<>>
        ELSE /\ sm.connection = last.state
             /\ Cardinality(NotesOf(sm.log, "generic")) = 1
             /\ Cardinality(NotesOf(sm.log, "conn")) = 1
             /\ \A i \in NotesOf(sm.log, "conn") : sm.log[i].conn = last.state
             /\ (last.error # NoError => sm.lastError = last.error)

C3_Witness ==
    /\ last.op = "updateConnectionState" /\ ~Suppressed
    /\ last.state = last.connection /\ last.error # NoError
    /\ Cardinality(NotesOf(sm.log, "generic")) = 1

\* C4: a same-kind update requested from inside a listener while an update is
\* being applied is deferred, and every deferred request is replayed once the
\* update in progress has notified: after each deferral the listeners of that
\* kind are told the requested state, and no more updates are applied than
\* were requested.
Requests(kind) ==
    (IF last.op = (IF kind = "conn" THEN "updateConnectionState"
                   ELSE "updateTaskState") /\ ~Suppressed THEN 1 ELSE 0)
    + Cardinality({ i \in DOMAIN last.script : last.script[i].op = kind })

C4_DeferredReplayedOnce ==
    /\ \A i \in NotesOf(sm.log, "defer_task") :
          \E j \in NotesOf(sm.log, "task") : j > i /\ sm.log[j].task = sm.log[i].task
    /\ \A i \in NotesOf(sm.log, "defer_conn") :
          \E j \in NotesOf(sm.log, "conn") : j > i /\ sm.log[j].conn = sm.log[i].conn
    /\ Cardinality(NotesOf(sm.log, "apply_task")) <= Requests("task")
    /\ Cardinality(NotesOf(sm.log, "apply_conn")) <= Requests("conn")

(***************************************************************************)
(* Claims about the AgentClient                                            *)
(***************************************************************************)
SocketCreated == \E s \in Sockets : cl.sockets[s].readyState = "FREE"
                                    /\ cl'.sockets[s].readyState = "CONNECTING"

\* C5: a close with a non-normal code while the task is `running` sets the
\* connection `closed`, resets the task to `idle`, and schedules a reconnect
\* whose delay, for the first attempt, is the base delay (1000 ms).
C5_AbnormalCloseSchedulesReconnect ==
    [][ (last'.op = "wsClose" /\ last'.state = "abnormal" /\ sm.task = "running")
        => /\ sm'.connection = "closed"
           /\ sm'.task = "idle"
           /\ Len(cl'.lossTimers) = Len(cl.lossTimers) + 1
           /\ cl'.lossTimers[Len(cl'.lossTimers)] = reconnectDelay ]_vars

C7_NoReconnectAfterDisconnect ==
    [][ (cl.userDisconnected /\ cl'.userDisconnected)
        => /\ ~SocketCreated
           /\ sm.connection = "closed" => sm'.connection = "closed" ]_vars

\* C8: when the health check of a connected client finds the connection lost
\* and schedules a reconnect, a connection attempt is eventually started (a
\* connect() gets past its guard, or a new transport is created), timers
\* firing, with no close event needed.
AttemptStarted ==
    \/ last.op = "createWebSocket"
    \/ \E p \in Connects : cl.connects[p].pc = "createTestRun"

C8_HealthLossReconnects ==
    (last.op = "healthCheck" /\ last.state = "lost") ~> AttemptStarted

\* C9: connect() while the connection is `connected` or `connecting` returns
\* with the run id, the connection and task state, the sockets and the
\* suspended calls all as they were.
C9_ConnectRefused ==
    [][ (last'.op \in {"connect", "reconnectTimer"}
         /\ sm.connection \in {"connected", "connecting"})
        => /\ sm'.runId = sm.runId
           /\ sm'.connection = sm.connection
           /\ sm'.task = sm.task
           /\ sm'.lastError = sm.lastError
           /\ cl'.ws = cl.ws
           /\ cl'.sockets = cl.sockets
           /\ cl'.connects = cl.connects ]_vars

C9_Witness ==
    /\ last.op = "connect" /\ sm.connection = "connected"
    /\ cl.ws # NoSocket /\ sm.runId # Null

(***************************************************************************)
(* Claims about the McpTunnel and the McpServer                            *)
(***************************************************************************)
Answer == IF last.op = "toolsCall" THEN tn.response ELSE tn.httpResponse

\* C10: the response to tools/call carries, for a name not in the registry, an
\* `error` with the tool-not-found code and no `result`; for a registered tool
\* whose handler throws, a `result` and no `error`, with isError true and one
\* text block as content; for a registered tool that succeeds, isError false.
C10_ToolCallOutcome ==
    last.op \in {"toolsCall", "httpToolsCall"} =>
        IF last.state \notin toolRegistry
        THEN /\ DOMAIN Answer = {"jsonrpc", "id", "error"}
             /\ Answer.error.code = TOOL_NOT_FOUND
        ELSE /\ DOMAIN Answer = {"jsonrpc", "id", "result"}
             /\ IF last.error = "throws"
                THEN /\ Answer.result.isError = TRUE
                     /\ Len(Answer.result.content) = 1
                     /\ Answer.result.content[1].type = "text"
                ELSE Answer.result.isError = FALSE

C10_Witness ==
    /\ last.op = "toolsCall" /\ last.state \in toolRegistry /\ last.error = "throws"
    /\ tn.sent.type = "mcp_response" /\ tn.sent.response.result.isError

\* The request the tunnel answered in this task failed: unknown method,
\* unknown tool, unreadable resource, or params missing where they are read.
RequestFailed ==
    /\ tn.request # NoFrame
    /\ \/ tn.request.method = "no/such"
       \/ tn.request.method \in {"tools/call", "initialize", "resources/read"}
             /\ ~tn.request.params.present
       \/ tn.request.method = "tools/call" /\ tn.request.params.present
             /\ tn.request.params.name \notin toolRegistry
       \/ tn.request.method = "resources/read" /\ tn.request.params.present
             /\ last.error = "throws"

\* C11: a tunneled request that fails is answered with a JSON-RPC error
\* object {code, message} under the request's id, written to the socket if it
\* is open; the task that answers it leaves the tunnel state, the socket in
\* use and every socket's readyState as they were.
C11_FailureAnswered ==
    [][ RequestFailed'
        => /\ DOMAIN tn'.response = {"jsonrpc", "id", "error"}
           /\ tn'.response.id = tn'.request.id
           /\ DOMAIN tn'.response.error = {"code", "message"}
           /\ tn'.response.error.code \in
                  {METHOD_NOT_FOUND, TOOL_NOT_FOUND, RESOURCE_NOT_FOUND, INTERNAL_ERROR}
           /\ tn'.state = tn.state /\ tn'.ws = tn.ws
           /\ \A s \in TunnelSockets :
                  tn'.sockets[s].readyState = tn.sockets[s].readyState
           /\ (tn.ws # NoSocket /\ tn.sockets[tn.ws].readyState = "OPEN")
                 => tn'.sent = [type |-> "mcp_response", requestId |-> tn'.envelope,
                                response |-> tn'.response] ]_vars

C11_Witness ==
    /\ RequestFailed
    /\ tn.request.method = "resources/read" /\ last.error = "throws"
    /\ tn.state = "connected"
    /\ tn.sent.type = "mcp_response"
    /\ tn.sent.response.error.code = RESOURCE_NOT_FOUND

\* C12: every tunnel connection that has opened carries exactly one
\* registration frame, and that frame is the first one written to it.
C12_RegistrationFirst ==
    \A s \in TunnelSockets :
        tn.sockets[s].readyState = "OPEN"
            => tn.sockets[s].registrations = 1 /\ tn.sockets[s].first = "mcp_register"

(***************************************************************************)
(* Claims about the MessageStorage                                         *)
(***************************************************************************)
\* The messages getMessagesForRun returns for run r in this state.
Returned(r) == getMessagesForRun(ms.defined, ms.history, r)

\* C13: no row ever holds more than MAX_HISTORY_PER_RUN messages, and a row
\* that was given more, one save at a time, holds exactly the most recently
\* saved MAX_HISTORY_PER_RUN of them, in the order they were saved.
C13_PerRunCap ==
    /\ \A r \in DOMAIN ms.history :
           Len(ms.history[r].messages) <= MAX_HISTORY_PER_RUN
    /\ \A r \in TargetRuns :
           (ms.sequential /\ Len(ms.saved[r]) > MAX_HISTORY_PER_RUN)
               => Returned(r) = SubSeq(ms.saved[r],
                                       Len(ms.saved[r]) - MAX_HISTORY_PER_RUN + 1,
                                       Len(ms.saved[r]))

C13_Witness ==
    /\ ms.sequential /\ last.op = "saveMessage"
    /\ Len(ms.saved[1]) = MAX_HISTORY_PER_RUN + 1
    /\ Len(ms.history[1].messages) = MAX_HISTORY_PER_RUN
    /\ ms.history[1].messages[1].content = 2

\* C14: after any sequence of saveMessage, saveActiveGroup, clearActiveGroup,
\* setRunTitle, deleteRunHistory and clearAllHistory, each awaited before the
\* next, the archive holds at most MAX_HISTORY_RUNS rows.
C14_GlobalCap ==
    ms.sequential => Cardinality(DOMAIN ms.history) <= MAX_HISTORY_RUNS

\* The map saveMessage hands to cleanupHistory, rebuilt from the map the task
\* found and the row it wrote.
BeforeEviction ==
    Put(ms.before, ms.calls[1].runId, ms.history[ms.calls[1].runId])

Fresh(history, now) ==
    { q \in DOMAIN history : now - history[q].lastUpdated <= MAX_HISTORY_AGE }

\* The other order: trim to the cap first, then drop the rows that are too old.
trimThenPrune(history, now) ==
    Then(IF Cardinality(DOMAIN history) > MAX_HISTORY_RUNS
         THEN Delete(history, { r \in DOMAIN history :
                 Cardinality({ q \in DOMAIN history : sortsBefore(history, q, r) })
                     < Cardinality(DOMAIN history) - MAX_HISTORY_RUNS })
         ELSE history,
         LAMBDA h1 :
        Delete(h1, { r \in DOMAIN h1 : now - h1[r].lastUpdated > MAX_HISTORY_AGE }))

\* C15: the map a saveMessage persists holds exactly the most recently updated
\* rows, at most MAX_HISTORY_RUNS of them, among the rows not older than
\* MAX_HISTORY_AGE; rows are unchanged by the eviction, and pruning by age
\* after trimming to the cap gives the same map.
C15_EvictionResult ==
    (last.op = "saveMessage" /\ ms.calls[1].runId \in DOMAIN ms.history)
        => Then(BeforeEviction, LAMBDA pre :
           Then(Fresh(pre, ms.now), LAMBDA fresh :
               /\ DOMAIN ms.history \subseteq fresh
               /\ Cardinality(DOMAIN ms.history)
                      = Min(MAX_HISTORY_RUNS, Cardinality(fresh))
               /\ \A s \in DOMAIN ms.history : \A d \in fresh \ DOMAIN ms.history :
                      pre[d].lastUpdated <= pre[s].lastUpdated
               /\ \A s \in DOMAIN ms.history : ms.history[s] = pre[s]
               /\ ms.history = trimThenPrune(pre, ms.now)))

\* The row just written is never the one evicted.
C15_WrittenRowKept ==
    last.op = "saveMessage" => ms.calls[1].runId \in DOMAIN ms.history

C15_Witness ==
    /\ last.op = "saveMessage"
    /\ ms.calls[1].runId = MAX_HISTORY_RUNS + 1
    /\ DOMAIN ms.before = 1..MAX_HISTORY_RUNS
    /\ \A q \in DOMAIN ms.before : ms.now - ms.before[q].lastUpdated <= MAX_HISTORY_AGE
    /\ DOMAIN ms.history = 2..(MAX_HISTORY_RUNS + 1)

\* A save that both prunes by age and finds more rows than the cap.
C15_WitnessAged ==
    /\ last.op = "saveMessage"
    /\ Cardinality(DOMAIN ms.before) >= MAX_HISTORY_RUNS
    /\ ms.calls[1].runId \notin DOMAIN ms.before
    /\ Cardinality(DOMAIN ms.history) = 2

\* C16: the messages saved to a run, one save at a time and no more than
\* MAX_HISTORY_PER_RUN of them since its row began, are what getMessagesForRun
\* returns: same fields and values, same order, and no runId field.
C16_RoundTrip ==
    \A r \in TargetRuns :
        (ms.sequential /\ Len(ms.saved[r]) <= MAX_HISTORY_PER_RUN)
            => /\ Returned(r) = ms.saved[r]
               /\ \A i \in 1..Len(Returned(r)) : "runId" \notin DOMAIN Returned(r)[i]

C16_Witness ==
    /\ ms.sequential /\ last.op = "saveMessage"
    /\ Len(ms.saved[1]) = MAX_HISTORY_PER_RUN
    /\ ms.calls[1].message = ms.saved[1][MAX_HISTORY_PER_RUN]
    /\ Returned(1)[MAX_HISTORY_PER_RUN].content = ms.count
    /\ ms.history[1].messages[1].runId = 1

\* C17: with every call awaited, getActiveGroup(r) is the group last passed to
\* saveActiveGroup(r), and null once clearActiveGroup(r), deleteRunHistory(r),
\* clearAllHistory or the eviction of r's row came after it; saveMessage and
\* setRunTitle calls that leave the row in place leave the group as it was.
C17_ActiveGroupRecovery ==
    ms.sequential
        => \A r \in TargetRuns :
               getActiveGroup(ms.defined, ms.history, r) = ms.groups[r]

C17_Witness ==
    /\ ms.sequential /\ last.op = "saveMessage"
    /\ ms.calls[1].runId = 1
    /\ ms.groups[1] \in ActiveGroups /\ ms.groups[1].size = MaxGroupSize
    /\ getActiveGroup(ms.defined, ms.history, 1) = ms.groups[1]

\* The row that carried a group was evicted by a save to another run.
C17_WitnessEvicted ==
    /\ ms.sequential /\ last.op = "saveMessage"
    /\ ms.calls[1].runId = MAX_HISTORY_RUNS + 1
    /\ 1 \in DOMAIN ms.before /\ ms.before[1].activeGroup \in ActiveGroups
    /\ 1 \notin DOMAIN ms.history
    /\ getActiveGroup(ms.defined, ms.history, 1) = NoGroup

\* The task just run made a saveMessage and, before it resumed, a second
\* saveMessage or the observer's saveActiveGroup or clearActiveGroup.
Overlapped ==
    /\ last.op = "overlap"
    /\ ms.calls[1].op = "saveMessage"
    /\ ms.calls[2].op \in {"saveMessage", "saveActiveGroup", "clearActiveGroup"}

MessagePersisted(c) ==
    \E i \in 1..Len(Returned(c.runId)) : Returned(c.runId)[i] = c.message

\* C18: when two writes overlap, the map persisted after both holds the
\* message of every saveMessage and the group of the saveActiveGroup, and no
\* group after the clearActiveGroup.
C18_NoLostUpdate ==
    Overlapped
        => /\ MessagePersisted(ms.calls[1])
           /\ ms.calls[2].op = "saveMessage" => MessagePersisted(ms.calls[2])
           /\ ms.calls[2].op = "saveActiveGroup"
                 => getActiveGroup(ms.defined, ms.history, ms.calls[2].runId)
                        = ms.calls[2].activeGroup
           /\ ms.calls[2].op = "clearActiveGroup"
                 => getActiveGroup(ms.defined, ms.history, ms.calls[2].runId) = NoGroup

\* Two overlapping writes on a map that is already stored both take effect.
C18_StoredMapKeepsBoth ==
    (Overlapped /\ ms.before # EmptyHistory) => C18_NoLostUpdate

(***************************************************************************)
(* Claims about the AgentClient's tasks and frames                         *)
(***************************************************************************)
\* The message the frame just handled was turned into.
FrameMessage ==
    Directed(AgentMessage(last'.state, Len(cl.messages) + 1, ms'.now),
             messageDirection(last'.state))

\* C19: when the store's get or update fails while a frame's message is
\* saved, saveMessage's promise is still fulfilled, the state inferred from
\* the frame is applied as it would be without the archive, the message is
\* appended to the in-memory list and the message event is fired with it.
C19_PersistenceBestEffort ==
    [][ (last'.op = "wsFrame" /\ last'.state # "pong" /\ last'.error # NoError)
          => /\ cl'.saveSettled = "fulfilled"
             /\ sm'.lastMessage.type = last'.state
             /\ sm' = [Finish(inferStateFromMessage(Begin(sm, <<>>), sm'.lastMessage))
                          EXCEPT !.log = <<>>]
             /\ cl'.messages = Append(cl.messages, FrameMessage)
             /\ cl'.fired = Append(cl.fired, FrameMessage) ]_vars

C19_Witness ==
    /\ last.op = "wsFrame" /\ last.state = "result" /\ last.error = "update failed"
    /\ sm.task = "completed"
    /\ cl.saveSettled = "fulfilled"
    /\ cl.fired # <<>> /\ cl.fired = cl.messages
    /\ cl.fired[Len(cl.fired)].type = "result"

\* The get failed: the frame is handled all the same.
C19_WitnessGet ==
    /\ last.op = "wsFrame" /\ last.state = "message" /\ last.error = "get failed"
    /\ sm.task = "running"
    /\ cl.saveSettled = "fulfilled"
    /\ cl.fired # <<>> /\ cl.fired[Len(cl.fired)].type = "message"

\* C20: a result frame with data.status complete, received while connected
\* and running, moves the task to completed; a stopTask called while the
\* task is completed returns false, writes no frame and leaves it completed.
C20_StopAfterComplete ==
    [][ /\ (/\ isConnected(sm) /\ sm.task = "running"
            /\ last'.op = "wsFrame"
            /\ sm'.lastMessage = Msg("result", Null, "complete"))
              => sm'.task = "completed"
        /\ (sm.task = "completed" /\ last'.op = "stopTask")
              => /\ last'.state = "false"
                 /\ cl'.sent = cl.sent
                 /\ cl'.messages = cl.messages
                 /\ sm'.task = "completed"
                 /\ sm'.stopTimer = sm.stopTimer ]_vars

C20_Witness ==
    /\ last.op = "stopTask" /\ last.state = "false"
    /\ isConnected(sm) /\ sm.task = "completed"
    /\ sm.lastMessage = Msg("result", Null, "complete")
    /\ cl.sent = <<>>

\* C21: an input_request frame received while connected moves the task to
\* awaiting_input; with the task awaiting_input and the transport open,
\* startTask returns false and changes nothing, and sendInputResponse returns
\* true and writes one input_response frame.
C21_AwaitingInput ==
    [][ /\ (/\ isConnected(sm) /\ last'.op = "wsFrame"
            /\ sm'.lastMessage.type = "input_request")
              => sm'.task = "awaiting_input" /\ ~canStartTask(sm')
        /\ (isConnected(sm) /\ sm.task = "awaiting_input" /\ last'.op = "startTask")
              => /\ last'.state = "false"
                 /\ sm' = sm /\ cl' = cl /\ ms' = ms
        /\ (/\ isConnected(sm) /\ sm.task = "awaiting_input"
            /\ cl.ws # NoSocket /\ cl.sockets[cl.ws].readyState = "OPEN"
            /\ last'.op = "sendInputResponse")
              => /\ last'.state = "true"
                 /\ cl'.sent = Append(cl.sent, "input_response")
                 /\ sm'.task = "awaiting_input" ]_vars

C21_Witness ==
    /\ last.op = "sendInputResponse" /\ last.state = "true"
    /\ isConnected(sm) /\ sm.task = "awaiting_input"
    /\ sm.lastMessage.type = "input_request"
    /\ cl.sent = <<"input_response">>

\* startTask was refused while the task awaited input.
C21_WitnessStart ==
    /\ last.op = "startTask" /\ last.state = "false"
    /\ isConnected(sm) /\ sm.task = "awaiting_input"

C22_WitnessStart ==
    /\ last.op = "startTaskValidated" /\ last.error = "valid" /\ last.state = "false"
    /\ ~isConnected(sm) /\ sm.task = "idle"
    /\ sm.lastError = "send start failed"

\* The message a sendMessage that returned true made of its payload.
SentMessage ==
    Directed(AgentMessage(cl'.sent[Len(cl'.sent)], Len(cl.messages) + 1, ms'.now),
             "outgoing")

\* C23: a sendMessage called while the connection is not connected returns
\* false and changes nothing: no frame, no message in the list, no event, the
\* archive as it was.  A sendMessage that returns true has appended one
\* outgoing message holding the payload to the list, fired the event with it
\* and handed it to the archive under the current run id.
C23_SendMessageEffect ==
    [][ /\ (~isConnected(sm) /\ last'.op = "sendInputResponse")
              => /\ last'.state = "false"
                 /\ sm' = sm /\ cl' = cl /\ ms' = ms
        /\ (last'.op = "sendInputResponse" /\ last'.state = "true")
              => /\ isConnected(sm)
                 /\ cl'.sent = Append(cl.sent, "input_response")
                 /\ cl'.messages = Append(cl.messages, SentMessage)
                 /\ cl'.fired = Append(cl.fired, SentMessage)
                 /\ sm.runId # Null
                 /\ RunKey(sm.runId) \in DOMAIN ms'.history
                 /\ LET row == ms'.history[RunKey(sm.runId)].messages
                    IN  /\ row # <<>>
                        /\ row[Len(row)] = StoredMessage(SentMessage, RunKey(sm.runId))
                        /\ RunKey(sm.runId) \in DOMAIN ms.history
                              => Len(row) = Len(ms.history[RunKey(sm.runId)].messages) + 1
                        /\ RunKey(sm.runId) \notin DOMAIN ms.history => Len(row) = 1 ]_vars

C23_Witness ==
    /\ last.op = "sendInputResponse" /\ last.state = "true"
    /\ Len(cl.messages) = MaxFrames
    /\ cl.messages[MaxFrames].direction = "outgoing"
    /\ cl.messages[1].direction = "incoming"
    /\ cl.messages[MaxFrames].type = "input_response"
    /\ Len(ms.history[RunKey(sm.runId)].messages) = MaxFrames

\* sendMessage was refused on a client that is not connected.
C23_WitnessRefused ==
    /\ last.op = "sendInputResponse" /\ last.state = "false"
    /\ ~isConnected(sm) /\ cl.messages # <<>>

\* C24: the task leaves stopping only when a completion frame is handled or
\* when the stop watchdog fires.
C24_StoppingExits ==
    [][ (sm.task = "stopping" /\ sm'.task # "stopping")
          => \/ last'.op = "stopTimeout"
             \/ last'.op = "wsFrame" /\ sm'.lastMessage.type = "completion" ]_vars

\* The two exits the claim allows are taken.
C24_ExitByCompletion ==
    /\ last.op = "wsFrame" /\ sm.lastMessage.type = "completion"
    /\ sm.task = "idle" /\ cl.sent = <<"stop">>

\* C25: the stop watchdog is armed only while the task is stopping: every
\* path that leaves stopping cancels it.
C25_TimerOnlyWhileStopping == sm.stopTimer => sm.task = "stopping"

\* The path through _performTaskStateUpdate does cancel the timer: a failed
\* stop transmission rolls back to running with no timer pending.
C25_CancelledByUpdateTaskState ==
    [][ (sm.task = "stopping" /\ sm'.task # "stopping"
            /\ last'.op \in {"stopTask", "stopTimeout"}) => ~sm'.stopTimer ]_vars

\* C26: no call of updateTaskState and no firing of the stop watchdog changes
\* the connection state.
C26_TaskLeavesConnection ==
    [][ last'.op \in {"updateTaskState", "stopTimeout"}
          => sm'.connection = sm.connection ]_vars

\* A task update applied while connected, and the watchdog forcing idle.
C26_Witness ==
    /\ last.op = "updateTaskState" /\ last.state = "error"
    /\ sm.task = "error" /\ sm.connection = "connected"

C26_WitnessWatchdog ==
    /\ last.op = "stopTimeout" /\ sm.task = "idle"
    /\ sm.lastError = StopTimeoutError /\ sm.connection = "connected"

\* C27: the run id is set before the state becomes connecting and does not
\* change while the state stays connecting or connected.
C27_RunIdStable ==
    [][ (sm.connection \in {"connecting", "connected"}
            /\ sm'.connection \in {"connecting", "connected"})
          => sm'.runId = sm.runId ]_vars

\* The part that holds: no state is connecting or connected without a run id.
C27_RunIdSetFirst == sm.connection \in {"connecting", "connected"} => sm.runId # Null

\* C29: executeWithRetry schedules another attempt only after a failure that
\* is classified retryable; a failure that is not makes the call reject.
C29_RetryOnlyRetryable ==
    [][ (last.pc = "operation" /\ last'.pc = "delay")
          => last'.thrown[Len(last'.thrown)].retryable ]_vars

\* The rest of the policy: the operation is invoked at least once and at
\* most maxAttempts times before the call settles, a success ends the call,
\* a rejection carries the last failure's message, and the i-th wait is
\* min(baseDelay * backoffFactor^(i-1), maxDelay).
C29_AttemptsAndDelays ==
    /\ last.invocations <= maxAttemptsOf(last.config)
    /\ last.pc \in {"resolved", "rejected"} => last.invocations >= 1
    /\ last.pc = "resolved" => Len(last.thrown) = last.invocations - 1
    /\ last.pc = "rejected" =>
          /\ last.invocations = maxAttemptsOf(last.config)
          /\ Len(last.thrown) = last.invocations
          /\ last.lastError.message = last.thrown[Len(last.thrown)].message
          /\ last.handled = 1
    /\ \A i \in DOMAIN last.waits :
          /\ last.config.defined
          /\ last.waits[i] * last.config.backoffFactor[2]^(i - 1)
                 <= last.config.baseDelay * last.config.backoffFactor[1]^(i - 1)
          /\ last.waits[i] <= last.config.maxDelay
          /\ \/ last.waits[i] = last.config.maxDelay
             \/ last.waits[i] * last.config.backoffFactor[2]^(i - 1)
                   = last.config.baseDelay * last.config.backoffFactor[1]^(i - 1)
    /\ last.config = CappedRetryConfig => \A i \in DOMAIN last.waits :
          last.waits[i] = <<1000, 2000, 3000>>[i]

\* A call that used all four attempts of the capped configuration.
C29_Exhausted ==
    /\ last.pc = "rejected" /\ last.invocations = 4
    /\ last.waits = <<1000, 2000, 3000>>

\* C28: after a disconnect() that closes a socket, and after a close event,
\* AppState equals its initial value: closed, idle, no run id, no error, no
\* message.
C28_ResetOnDisconnect ==
    [][ (last'.op = "disconnect" /\ cl.ws # NoSocket) \/ last'.op = "wsClose"
          => /\ sm'.connection = StateManagerInit.connection
             /\ sm'.task = StateManagerInit.task
             /\ sm'.runId = StateManagerInit.runId
             /\ sm'.lastError = StateManagerInit.lastError
             /\ sm'.lastMessage = StateManagerInit.lastMessage ]_vars

\* The part that holds: the connection is closed and the task idle.
C28_ClosedAndIdle ==
    [][ (last'.op = "disconnect" /\ cl.ws # NoSocket) \/ last'.op = "wsClose"
          => sm'.connection = "closed" /\ sm'.task = "idle" ]_vars

\* C30: when a call of connect() rejects because its last attempt failed, the
\* connection state is error and is not left in connecting.
C30_ExhaustedEndsInError ==
    [][ \A p \in Connects :
          ( /\ cl.connects[p].pc = "open"
            /\ cl.connects[p].attempt = NetworkRetryMaxAttempts
            /\ cl'.connects[p].pc = "done"
            /\ last'.op \in {"wsError", "connectTimeout"} )
          => sm'.connection = "error" ]_vars

\* The same for the calls the user made: these do end in error.
C30_UserCallEndsInError ==
    [][ \A p \in Connects :
          ( /\ cl.connects[p].pc = "open"
            /\ cl.connects[p].attempt = NetworkRetryMaxAttempts
            /\ cl.connects[p].caller = "user"
            /\ cl'.connects[p].pc = "done"
            /\ last'.op \in {"wsError", "connectTimeout"} )
          => sm'.connection = "error" /\ sm'.lastError # Null ]_vars

\* C31: a completion message moves the task by its status, from any prior
\* task state: status complete gives completed, status cancelled gives idle.
C31_CompletionByStatus ==
    [][ (last'.op = "inferStateFromMessage" /\ sm'.lastMessage.type = "completion")
          => /\ sm'.lastMessage.status = "complete" => sm'.task = "completed"
             /\ sm'.lastMessage.status = "cancelled" => sm'.task = "idle" ]_vars

\* What the switch does: cancelled gives idle and completed gives completed,
\* from any prior task state; any other status leaves the task as it was.
C31_CompletionAsCoded ==
    [][ (last'.op = "inferStateFromMessage" /\ sm'.lastMessage.type = "completion")
          => sm'.task = CASE sm'.lastMessage.status = "cancelled" -> "idle"
                          [] sm'.lastMessage.status = "completed" -> "completed"
                          [] OTHER -> sm.task ]_vars

PartialResult ==
    /\ last.op = "inferStateFromMessage"
    /\ sm.lastMessage.type = "result" /\ sm.lastMessage.dataStatus = "partial"

\* C32: a result message with status partial leaves connection and task as
\* they were, whatever the task was (stopping included), and no connection or
\* task listener is called.
C32_PartialResultNoEffect ==
    PartialResult
    => /\ sm.connection = last.connection /\ sm.task = last.task
       /\ NotesOf(sm.log, "conn") = {} /\ NotesOf(sm.log, "task") = {}

\* It holds for every prior task state but stopping.
C32_PartialOutsideStopping ==
    (PartialResult /\ last.task # "stopping")
    => /\ sm.connection = last.connection /\ sm.task = last.task
       /\ NotesOf(sm.log, "conn") = {} /\ NotesOf(sm.log, "task") = {}

\* min(1000 * 2^(n-1), 30000)
BackoffDelay(n) == IF 1000 * 2^(n - 1) <= 30000 THEN 1000 * 2^(n - 1) ELSE 30000

\* C33: the delay armed for the n-th reconnect in a row is
\* min(1000 * 2^(n-1), 30000) ms.  Checked where a reconnect attempt has just
\* failed and the next one is scheduled (n >= 2, no transport-open between).
C33_ReconnectBackoff ==
    [][ (Len(cl'.lossTimers) = Len(cl.lossTimers) + 1
            /\ last'.op \in {"wsError", "connectTimeout"})
          => cl'.lossTimers[Len(cl'.lossTimers)] = BackoffDelay(cl'.streak) ]_vars

\* The client's delay follows its own counter, which cleanup() resets.
C33_ClientDelayByCounter ==
    [][ Len(cl'.lossTimers) = Len(cl.lossTimers) + 1
          => /\ cl'.lossTimers[Len(cl'.lossTimers)] = BackoffDelay(cl'.reconnectAttempts)
             /\ cl'.lossTimers[Len(cl'.lossTimers)] <= 30000 ]_vars

\* The tunnel's counter is reset by a transport-open only, and its delays
\* follow the formula up to the cap.
C33_TunnelBackoff ==
    [][ (tn'.reconnectTimer # NoTimer /\ tn'.reconnectAttempts = tn.reconnectAttempts + 1)
          => /\ tn'.reconnectTimer = BackoffDelay(tn'.reconnectAttempts)
             /\ tn'.reconnectTimer <= 30000
             /\ tn'.reconnectAttempts > 1 =>
                   tn'.reconnectTimer >= BackoffDelay(tn.reconnectAttempts) ]_vars

\* C34: in every reachable state of the client a connection that is closed
\* or in error has an idle task.
C34_DownMeansIdle == sm.connection \in {"closed", "error"} => sm.task = "idle"

\* The coupling itself: right after a step that moves the connection to
\* closed or error the task is idle.
C34_IdleAtTransition ==
    [][ (sm'.connection \in {"closed", "error"} /\ sm.connection # sm'.connection)
          => sm'.task = "idle" ]_vars

\* C35: during an updateConnectionState called while the connection is
\* connecting or connected, no generic listener is handed a snapshot with
\* the connection closed or in error and the task not idle.
C35_ConsistentSnapshots ==
    (last.op = "updateConnectionState" /\ last.connection \in {"connecting", "connected"})
    => \A i \in NotesOf(sm.log, "generic") :
          sm.log[i].conn \in {"closed", "error"} => sm.log[i].task = "idle"

\* The task listeners do learn of the reset: after an applied connection
\* update to closed or error from a task that was not idle, the last task
\* notification of the call is idle, and the state itself is consistent.
C35_TaskListenersSeeReset ==
    (last.op = "updateConnectionState" /\ ~Suppressed
       /\ last.state \in {"closed", "error"} /\ last.task # "idle")
    => /\ sm.task = "idle"
       /\ NotesOf(sm.log, "task") # {}
       /\ \A i \in NotesOf(sm.log, "task") : sm.log[i].task = "idle"

\* Calls of connect() that are past the guard and not waiting out a retry
\* delay: they await createTestRun or the opening of their socket.
AttemptsInFlight == { p \in Connects : cl.connects[p].pc \in {"createTestRun", "open"} }

\* C36: at most one connection attempt is in flight, whatever the
\* interleaving of connect() calls and retry delays.
C36_OneAttemptInFlight == Cardinality(AttemptsInFlight) <= 1

\* With one call of connect() at a time the guard does keep a single attempt
\* and a single socket (SpecClient).
C36_GuardRefusesSecondCall ==
    [][ (last'.op \in {"connect", "reconnectTimer"}
            /\ sm.connection \in {"connecting", "connected"})
          => cl'.connects = cl.connects /\ cl'.ws = cl.ws ]_vars

\* C37: the mcp_response for a request is written, if at all, to the socket
\* the request was received on, never to the socket of a later connection.
C37_ResponseConfined ==
    [][ (tn.pending # <<>> /\ tn'.pending = Tail(tn.pending)
            /\ tn'.sent.type = "mcp_response")
          => tn.ws = Head(tn.pendingOn) ]_vars

\* While no transport is open (closed and not yet reconnected) the response
\* is dropped.
C37_DroppedWhileDown ==
    [][ (tn.pending # <<>> /\ tn'.pending = Tail(tn.pending)
            /\ (tn.ws = NoSocket \/ tn.sockets[tn.ws].readyState # "OPEN"))
          => tn'.sent = NoFrame ]_vars

(***************************************************************************)
(* C38: request and response pairing in the tunnel.                        *)
(***************************************************************************)
\* The i-th suspended request was answered in this step on the socket it
\* came in on, still open.
AnsweredAt(i) ==
    /\ i \in DOMAIN tn.pending
    /\ tn'.pending = RemoveAt(tn.pending, i)
    /\ tn'.pendingIds = RemoveAt(tn.pendingIds, i)
    /\ tn'.pendingOn = RemoveAt(tn.pendingOn, i)
    /\ tn.ws = tn.pendingOn[i] /\ tn.sockets[tn.ws].readyState = "OPEN"

\* The frame written for a request that came in envelope `id`.
PairedResponse(frame, id, request) ==
    /\ frame.type = "mcp_response"
    /\ frame.requestId = id
    /\ frame.response.id = request.id

\* A request that came in envelope e is suspended on the open socket in use.
AwaitingOn(e) ==
    \E i \in DOMAIN tn.pendingIds :
        /\ tn.pendingIds[i] = e
        /\ tn.ws = tn.pendingOn[i] /\ tn.sockets[tn.ws].readyState = "OPEN"

\* C38: every mcp_request frame that wraps a request and is received while
\* the transport stays open is answered by one mcp_response whose requestId
\* is the frame's envelope id and whose JSON-RPC id is the wrapped request's
\* id, also when another request is executing at the same time; a request
\* suspended in tool.execute or readFile is eventually answered or the
\* transport it came in on is no longer the open one.
C38_Pairing ==
    /\ [][ /\ (Len(tn'.pending) < Len(tn.pending)
               /\ \E i \in DOMAIN tn.pending : AnsweredAt(i))
              => \E i \in DOMAIN tn.pending :
                     /\ AnsweredAt(i)
                     /\ PairedResponse(tn'.sent, tn.pendingIds[i], tn.pending[i])
           /\ (tn'.request # NoFrame /\ Len(tn'.pending) = Len(tn.pending)
               /\ tn'.httpResponse = NoFrame
               /\ tn.ws # NoSocket /\ tn.sockets[tn.ws].readyState = "OPEN")
              => PairedResponse(tn'.sent, tn'.envelope, tn'.request) ]_vars
    /\ \A e \in EnvelopeIds :
          AwaitingOn(e)
              ~> \/ tn.sent.type = "mcp_response" /\ tn.sent.requestId = e
                 \/ ~AwaitingOn(e)

C38_Witness ==
    /\ tn.sent.type = "mcp_response" /\ tn.sent.requestId = "e2"
    /\ tn.sent.response.id = "5"
    /\ tn.pendingIds = <<"e1">> /\ tn.pending[1].id = "1"

(***************************************************************************)
(* C39: the task state after a stop that could not be sent.                *)
(***************************************************************************)
\* A stopTask passed its guard and returned false: its frame was not sent.
StopFailed ==
    /\ last'.op = "stopTask" /\ last'.state = "false"
    /\ canStopTask(sm)

\* C39: when stopTask fails to transmit, the task state after the call is the
\* task state that held immediately before it, be it starting, running or
\* awaiting_input.
C39_PreStopStateRestored ==
    [][ StopFailed => sm'.task = sm.task ]_vars

\* C39, as the code has it: the task state after the call is running when it
\* was running before, and running as well when it was starting or
\* awaiting_input.
C39_RunningAfterFailedStop ==
    [][ StopFailed
        => /\ sm.task = "running" => sm'.task = sm.task
           /\ sm'.task = "running" ]_vars

(***************************************************************************)
(* C40: the stop watchdog and the stopping episode that set it.            *)
(***************************************************************************)
\* C40: the watchdog's callback leaves the task state alone when the task is
\* not stopping, and it forces idle no sooner than STOP_TIMEOUT_MS after the
\* most recent entry into stopping, also when an earlier stopping episode
\* ended with its timer still set and the task was started and stopped again.
C40_WatchdogOwnEpisode ==
    [][ last'.op = "stopTimeout"
        => /\ sm.task # "stopping" => sm'.task = sm.task
           /\ (sm.task = "stopping" /\ sm'.task # "stopping")
                 => /\ sm'.task = "idle"
                    /\ sm.now >= sm.stoppingSince + STOP_TIMEOUT_MS ]_vars

\* The watchdog forced idle in an episode entered after the clock had moved,
\* at the time the timer of that episode was set for.
C40_Witness ==
    /\ last.op = "stopTimeout" /\ last.task = "stopping"
    /\ sm.task = "idle" /\ sm.lastError = StopTimeoutError
    /\ sm.stoppingSince > 0
    /\ sm.now >= sm.stoppingSince + STOP_TIMEOUT_MS

\* An earlier episode ended with its timer still set: the task runs again
\* and the timer of the episode before has come due.
C40_StaleTimerDue ==
    /\ sm.task = "running" /\ sm.stopTimer /\ sm.now >= sm.stopDue
====
